---- MODULE Spec2Model ----
(***************************************************************************)
(* Model of garmin-connect-export: the download ledger and exclusion list  *)
(* of filtering.py, and of gcexport.py the CSV column projector            *)
(* (CsvFilter), fetch_details, annotate_activity_list and the runs of      *)
(* main over one export directory.                                         *)
(*                                                                         *)
(* Files are modelled at the level of their decoded text: a path is        *)
(* absent, a directory, a text that json.loads rejects, or a JSON          *)
(* document.  Activity IDs are strings over Digits, modelled as sequences  *)
(* of digits and ordered the way Python orders str (by code point,         *)
(* lexicographically).                                                     *)
(***************************************************************************)
EXTENDS Integers, Sequences, FiniteSets, TLC

\* ---------------------------------------------------------------- bounds
MaxIdLen == 2       \* longest activity ID, in characters
MaxCalls == 3       \* update_download_stats calls in one behaviour
MaxExclude == 2     \* longest ids array of an exclusion file
MaxLines == 2       \* lines of a column template file
MaxRows == 2        \* records written to the CSV file in one behaviour
MaxActivities == 2  \* activity summaries in the list of one run
MaxTotal == 2001    \* largest total_to_download of fetch_activity_list

Digits == {0, 1}

ActivityIds == UNION {[1..n -> Digits] : n \in 1..MaxIdLen}

Range(s) == {s[i] : i \in 1..Len(s)}

Count(x, s) == Cardinality({i \in 1..Len(s) : s[i] = x})

\* ------------------------------------------------------- Python str order
\* a < b for two str values: the first differing character decides, a proper
\* prefix is smaller
StrLess(a, b) ==
    \E i \in 1..Len(b) :
        /\ \A j \in 1..(i - 1) : j <= Len(a) /\ a[j] = b[j]
        /\ (i > Len(a) \/ a[i] < b[i])

IsSorted(s) == \A i \in 1..(Len(s) - 1) : ~StrLess(s[i + 1], s[i])

RECURSIVE Insert(_, _)
Insert(x, s) ==
    IF s = <<>> THEN <<x>>
    ELSE IF StrLess(x, s[Len(s)]) THEN Append(Insert(x, SubSeq(s, 1, Len(s) - 1)), s[Len(s)])
    ELSE Append(s, x)

RECURSIVE SortedList(_)
\* list.sort(): stable, ascending
SortedList(s) ==
    IF s = <<>> THEN <<>>
    ELSE Insert(s[Len(s)], SortedList(SubSeq(s, 1, Len(s) - 1)))

\* variant of the ledger's re-sort: the new ID stays where append put it
UnsortedList(s) == s

\* obj[KEY_IDS].sort()
sort_ids(s) == SortedList(s)

\* ------------------------------------------------------------- file model
KEY_IDS == "ids"
OTHER_KEY == "other"

NoItems == <<>>
NoIds == <<>>

File(kind, str, items, keys, ids) ==
    [kind |-> kind, str |-> str, items |-> items, keys |-> keys, ids |-> ids]

Absent == File("absent", "", NoItems, {}, NoIds)
Directory == File("dir", "", NoItems, {}, NoIds)
\* a text that is not JSON: the empty file, or the literal HUGO
BadText(t) == File("text", t, NoItems, {}, NoIds)
JNull == File("null", "", NoItems, {}, NoIds)
JBool == File("bool", "", NoItems, {}, NoIds)
JNumber == File("number", "", NoItems, {}, NoIds)
JString(s) == File("string", s, NoItems, {}, NoIds)
JList(items) == File("list", "", items, {}, NoIds)
\* a JSON object: the keys it has and, when it has "ids", that array
JObject(keys, ids) == File("object", "", NoItems, keys, IF KEY_IDS \in keys THEN ids ELSE NoIds)

\* the elements of a top-level JSON list: a number, or a two-element list
\* [key, value] (value an ids array when key is "ids")
NumberItem == [kind |-> "number", key |-> "", ids |-> NoIds]
PairItem(k, ids) == [kind |-> "pair", key |-> k, ids |-> IF k = KEY_IDS THEN ids ELSE NoIds]

IsJson(f) == f.kind \in {"null", "bool", "number", "string", "list", "object"}
IsObject(f) == f.kind = "object"
HasIds(f) == IsObject(f) /\ KEY_IDS \in f.keys
IdSet(f) == IF HasIds(f) THEN Range(f.ids) ELSE {}

\* ---------------------------------------------------------------- dict()
\* dict(obj) of a decoded JSON value: a mapping is copied, a str or list is
\* read as a sequence of key/value pairs, anything else is not iterable
DictResult(exc, keys, ids) == [exc |-> exc, keys |-> keys, ids |-> ids]

PairKeys(items) == {items[i].key : i \in 1..Len(items)}

\* the value of the last pair with key "ids" wins
RECURSIVE PairIds(_)
PairIds(items) ==
    IF items = <<>> THEN NoIds
    ELSE IF items[Len(items)].key = KEY_IDS THEN items[Len(items)].ids
    ELSE PairIds(SubSeq(items, 1, Len(items) - 1))

to_dict(v) ==
    CASE v.kind = "object" -> DictResult("none", v.keys, v.ids)
      [] v.kind = "string" ->
            IF v.str = "" THEN DictResult("none", {}, NoIds)
            ELSE DictResult("ValueError", {}, NoIds)
      [] v.kind = "list" ->
            IF \E i \in 1..Len(v.items) : v.items[i].kind # "pair"
            THEN DictResult("TypeError", {}, NoIds)
            ELSE DictResult("none", PairKeys(v.items), PairIds(v.items))
      [] OTHER -> DictResult("TypeError", {}, NoIds)

\* ------------------------------------------------------------------ state
VARIABLES
    ledger,          \* content of <directory>/downloaded_ids.json
    ledger_start,    \* its content when the behaviour started
    ledger_before,   \* its content when the latest call started
    last_id,         \* activity_id of the latest update_download_stats call
    raised,          \* exception the latest call ended with, or "none"
    ncalls,          \* number of update_download_stats calls so far
    passed,          \* the IDs passed to update_download_stats so far
    recorded,        \* the IDs seen in the ledger's ids list so far
    exclude_file,    \* what is at the path given with --exclude
    exclude_start,   \* the same, when the behaviour started
    exclude_result,  \* outcome of read_exclude
    template,        \* lines of the column template file (args.template)
    csv_columns,     \* CsvFilter.__csv_columns
    csv_headers,     \* CsvFilter.__csv_headers
    csv_field_names, \* CsvFilter.__csv_field_names
    current_row,     \* CsvFilter.__current_row
    csv_file,        \* records written to CsvFilter.__csv_file
    csv_raised,      \* exception the latest CsvFilter call ended with, or "none"
    last_op,         \* the latest CsvFilter call and its arguments
    row_before,      \* __current_row when the latest call started
    since_write,     \* name -> latest truthy value passed to set_column for the row in progress
    nwrites,         \* number of write_row calls that returned
    fd_id,           \* fetch_details: activity_id
    fd_tries,        \* fetch_details: tries
    fd_responses,    \* fetch_details: the responses http_caller returned, in order
    fd_result,       \* fetch_details: "running", "returned" or the exception raised
    an_activities,   \* annotate_activity_list: activities
    an_start,        \* annotate_activity_list: start
    an_exclude,      \* annotate_activity_list: exclude_list
    an_filter,       \* annotate_activity_list: type_filter
    an_result,       \* annotate_activity_list: the action list returned
    pc,              \* main: where the run is
    args,            \* main: args.format, args.unzip, args.start_activity_no and the exclusion list
    action_list,     \* main: action_list
    item_ix,         \* main: position of the loop over action_list (1-based, 0 before it)
    csv_existed,     \* main: csv_existed
    data,            \* export_data_file: data
    data_files,      \* the activity data files of the export directory: name -> content
    csv_on_disk,     \* whether <directory>/activities.csv exists
    run_exception,   \* the exception that escaped main in this run, or "none"
    exit_status,     \* exit status of the latest run that ended
    fresh,           \* whether the export directory was empty when this run started
    events,          \* what this run did so far, in order
    existed_at_check,\* IDs whose data file this run found in the directory
    written,         \* IDs for which write_to_file completed, in any run
    interrupted,     \* IDs of the activities a run was stopped at, in any run
    sub_pc,          \* process_activity_item: which optional lookup is next
    sub_requests,    \* process_activity_item: the optional lookups requested
    total_to_download, \* fetch_activity_list: total_to_download
    total_downloaded,  \* fetch_activity_list: total_downloaded
    chunk_requests,    \* fetch_activity_list: start and limit of the chunk requests, in order
    activities_len,    \* fetch_activity_list: len(activities)
    list_returned,     \* fetch_activity_list: whether it returned
    activity_summaries,  \* fetch_multisports: activity_summaries
    idx,                 \* fetch_multisports: idx of the for loop
    summaries_before,    \* fetch_multisports: activity_summaries at the call
    child_ids_of,        \* the childIds the detail endpoint gives for a multi_sport activity
    multisports_result,  \* fetch_multisports: "running", "returned" or the exception raised
    device_dict,         \* extract_device: device_dict, shared by the calls
    device_requests,     \* the deviceApplicationInstallationIds requested from the device endpoint, in order
    device_call,         \* extract_device: the latest call, its result and whether it made a request
    device_calls,        \* extract_device: number of calls so far
    HR_ZONES_EMPTY,      \* the module-level list HR_ZONES_EMPTY
    hr_zones,            \* process_activity_item: extract['hrZones'] of the latest activity
    zones_raw,           \* load_zones: the zone numbers in the latest activity's response
    zone_calls,          \* number of activities whose zones were set so far
    login_pc,                \* login_to_garmin_connect: the statement it is at
    garth_session_directory, \* login_to_garmin_connect: the local of that name
    login_required,          \* login_to_garmin_connect: the local of that name
    garth_calls,             \* the garth calls made so far, each with its outcome
    login_raised,            \* what login_to_garmin_connect raised, or "none"
    pm_pc,               \* where the use of a PasswordManager object is
    pm_class,            \* the subclass of PasswordManager in use
    pm_user,             \* PasswordManager.user
    pm_password,         \* PasswordManager.password
    pm_session,          \* PasswordManager.session
    destroy_calls,       \* number of destroy_session calls on the object
    pm_exit,             \* how the with-statement was left, or "none"
    time_local,          \* offset_date_time: the parsed time_local
    time_gmt,            \* offset_date_time: the parsed time_gmt
    odt_result           \* offset_date_time: the returned datetime, or NoDateTime

ledger_vars == <<ledger, ledger_start, ledger_before, last_id, raised, ncalls, passed, recorded>>
exclude_vars == <<exclude_file, exclude_start, exclude_result>>
csv_vars == <<template, csv_columns, csv_headers, csv_field_names, current_row, csv_file, csv_raised,
              last_op, row_before, since_write, nwrites>>
details_vars == <<fd_id, fd_tries, fd_responses, fd_result>>
annotate_vars == <<an_activities, an_start, an_exclude, an_filter, an_result>>
run_vars == <<pc, args, action_list, item_ix, csv_existed, data, data_files, csv_on_disk, run_exception,
              exit_status, fresh, events, existed_at_check, written, interrupted>>
sub_vars == <<sub_pc, sub_requests>>
list_vars == <<total_to_download, total_downloaded, chunk_requests, activities_len, list_returned>>
multi_vars == <<activity_summaries, idx, summaries_before, child_ids_of, multisports_result>>
device_vars == <<device_dict, device_requests, device_call, device_calls>>
zone_vars == <<HR_ZONES_EMPTY, hr_zones, zones_raw, zone_calls>>
login_vars == <<login_pc, garth_session_directory, login_required, garth_calls, login_raised>>
pm_vars == <<pm_pc, pm_class, pm_user, pm_password, pm_session, destroy_calls, pm_exit>>
odt_vars == <<time_local, time_gmt, odt_result>>
late_vars == <<login_vars, pm_vars, odt_vars>>
more_vars == <<sub_vars, list_vars, multi_vars, device_vars, zone_vars, late_vars>>
aux_vars == <<details_vars, annotate_vars, run_vars, more_vars>>
vars == <<ledger_vars, exclude_vars, csv_vars, aux_vars>>

\* -------------------------------------------------- update_download_stats
Outcome(file, exc) == [file |-> file, raised |-> exc]

\* variant of the recovery from a JSONDecodeError: obj = data
loads_or_text(f) == IF f.kind = "text" THEN JString(f.str) ELSE f

\* json.loads(data); a JSONDecodeError gives obj = ""
loads_or_empty(f) == IF f.kind = "text" THEN JString("") ELSE f

\* variant of the ids default: the list is always started afresh
fresh_ids(d) == NoIds

\* if KEY_IDS not in obj: obj[KEY_IDS] = []
ids_of(d) == IF KEY_IDS \in d.keys THEN d.ids ELSE NoIds

\* variant of the membership test: no ID is ever found
never_present(activity_id, ids) == FALSE

\* activity_id in obj[KEY_IDS]
already_present(activity_id, ids) == activity_id \in Range(ids)

update_download_stats(activity_id, file) ==
    LET \* very first time: touch the file, json.dumps("")
        touched == IF file.kind = "absent" THEN JString("") ELSE file
        obj == loads_or_empty(touched)
        \* sanitize wrong formats
        d == to_dict(obj)
        ids == ids_of(d)
    IN  IF d.exc # "none" THEN Outcome(touched, d.exc)
        ELSE IF already_present(activity_id, ids) THEN Outcome(touched, "none")
        ELSE Outcome(JObject(d.keys \cup {KEY_IDS}, sort_ids(Append(ids, activity_id))), "none")

\* the ids arrays a ledger written by earlier runs can hold
LedgerIdLists == {<<>>} \cup {<<a>> : a \in ActivityIds}

LedgerItems == {NumberItem, PairItem(OTHER_KEY, NoIds)} \cup {PairItem(KEY_IDS, l) : l \in LedgerIdLists}

\* what a run can find at the ledger's path: nothing, a ledger of earlier
\* runs, or damaged content
LedgerFiles ==
    {Absent, BadText(""), BadText("HUGO"), JNull, JBool, JNumber, JString(""), JString("HUGO"), JList(<<>>)}
    \cup {JList(<<i>>) : i \in LedgerItems}
    \cup {JObject(k, l) : k \in SUBSET {KEY_IDS, OTHER_KEY}, l \in LedgerIdLists}

NoId == <<>>

InitLedger ==
    /\ ledger \in LedgerFiles
    /\ ledger_start = ledger
    /\ ledger_before = ledger
    /\ last_id = NoId
    /\ raised = "none"
    /\ ncalls = 0
    /\ passed = {}
    /\ recorded = IdSet(ledger)

IdleLedger ==
    /\ ledger = Absent
    /\ ledger_start = Absent
    /\ ledger_before = Absent
    /\ last_id = NoId
    /\ raised = "none"
    /\ ncalls = 0
    /\ passed = {}
    /\ recorded = {}

UpdateDownloadStats ==
    /\ ncalls < MaxCalls
    /\ \E activity_id \in ActivityIds :
        LET out == update_download_stats(activity_id, ledger)
        IN  /\ ledger' = out.file
            /\ raised' = out.raised
            /\ ledger_before' = ledger
            /\ last_id' = activity_id
            /\ passed' = passed \cup {activity_id}
            /\ recorded' = recorded \cup IdSet(out.file)
    /\ ncalls' = ncalls + 1
    /\ UNCHANGED <<ledger_start, exclude_vars, csv_vars, aux_vars>>

\* ------------------------------------------------------------ read_exclude
Unread == [status |-> "unread", exc |-> "none", ids |-> NoIds]
ReturnedNone == [status |-> "none", exc |-> "none", ids |-> NoIds]
ReturnedIds(l) == [status |-> "ids", exc |-> "none", ids |-> l]
Raised(exc) == [status |-> "raised", exc |-> exc, ids |-> NoIds]

\* os.path.exists(file)
path_exists(f) == f.kind # "absent"

\* variant of the regular-file test: every existing path passes
isfile_any(f) == f.kind # "absent"

\* os.path.isfile(file)
isfile(f) == f.kind \notin {"absent", "dir"}

\* variant of the subscript: the array is returned in sorted order
subscript_ids_sorted(obj) == SortedList(obj.ids)

\* obj['ids'] of a mapping that has the key
subscript_ids(obj) == obj.ids

read_exclude(file) ==
    IF ~path_exists(file) THEN ReturnedNone
    ELSE IF ~isfile(file) THEN ReturnedNone
    \* open(file, 'r')
    ELSE IF file.kind = "dir" THEN Raised("IsADirectoryError")
    \* json.load(json_file), except json.JSONDecodeError
    ELSE IF file.kind = "text" THEN ReturnedNone
    \* obj['ids']
    ELSE IF file.kind = "object" THEN
        IF KEY_IDS \in file.keys THEN ReturnedIds(subscript_ids(file)) ELSE Raised("KeyError")
    ELSE Raised("TypeError")

\* the ids arrays of a hand-written exclusion file: any order, repeats allowed
ExcludeIdLists == UNION {[1..n -> ActivityIds] : n \in 0..MaxExclude}

ExcludeFiles ==
    {Absent, Directory, BadText(""), BadText("HUGO"), JNull, JBool, JNumber, JString(""), JString("HUGO"),
     JList(<<>>), JList(<<NumberItem>>)}
    \cup {JObject(k, l) : k \in SUBSET {KEY_IDS, OTHER_KEY}, l \in ExcludeIdLists}

IdleExclude ==
    /\ exclude_file = Absent
    /\ exclude_start = Absent
    /\ exclude_result = Unread

InitExclude ==
    /\ exclude_file \in ExcludeFiles
    /\ exclude_start = exclude_file
    /\ exclude_result = Unread

\* main reads the exclusion list once, before anything else
ReadExclude ==
    /\ exclude_result.status = "unread"
    /\ exclude_result' = read_exclude(exclude_file)
    /\ UNCHANGED <<exclude_file, exclude_start, ledger_vars, csv_vars, aux_vars>>

\* ------------------------------------------------------------- CsvFilter
\* the values the orchestrator passes to set_column: None, str, int
PyNone == [t |-> "none", s |-> "", n |-> 0]
PyStr(s) == [t |-> "str", s |-> s, n |-> 0]
PyInt(n) == [t |-> "int", s |-> "", n |-> n]

\* variant of the truth test: value is not None
not_none(v) == v.t # "none"

\* truth value of a Python object
truthy(v) ==
    CASE v.t = "none" -> FALSE
      [] v.t = "str" -> v.s # ""
      [] v.t = "int" -> v.n # 0

\* the objects Python treats as false among those passed: None, '' and 0
FalsyValues == {PyNone, PyStr(""), PyInt(0)}

Values == FalsyValues \cup {PyStr("x")}

\* column keys and display headers a template file can use
ColumnKeys == {"A", "B", "C"}
HeaderTexts == {"Col 1", "Col 2"}

CommentLine == [comment |-> TRUE, key |-> "", value |-> ""]
PropertyLine(k, v) == [comment |-> FALSE, key |-> k, value |-> v]

TemplateLines == {CommentLine} \cup {PropertyLine(k, v) : k \in ColumnKeys, v \in HeaderTexts}
TemplateFiles == UNION {[1..n -> TemplateLines] : n \in 0..MaxLines}

EmptyDict == <<>>

\* d[k] = v on a dict modelled as a function
DictSet(d, k, v) == [x \in DOMAIN d \cup {k} |-> IF x = k THEN v ELSE d[x]]

RECURSIVE load_properties(_)
\* the dict load_properties returns: a later line with the same key wins
load_properties(lines) ==
    IF lines = <<>> THEN EmptyDict
    ELSE LET props == load_properties(SubSeq(lines, 1, Len(lines) - 1))
             line == lines[Len(lines)]
         IN  IF line.comment THEN props ELSE DictSet(props, line.key, line.value)

RECURSIVE load_properties_keys(_)
\* the list load_properties appends the keys to: one entry per property line
load_properties_keys(lines) ==
    IF lines = <<>> THEN <<>>
    ELSE LET keys == load_properties_keys(SubSeq(lines, 1, Len(lines) - 1))
             line == lines[Len(lines)]
         IN  IF line.comment THEN keys ELSE Append(keys, line.key)

\* CsvFilter.__init__: one field name per entry of __csv_columns
field_names(columns, headers) == [i \in 1..Len(columns) |-> headers[columns[i]]]

\* a record of the CSV file; csv.DictWriter writes restval '' for a missing key
Blank == PyStr("")
HeaderRecord(names) == [kind |-> "header", fields |-> [i \in 1..Len(names) |-> PyStr(names[i])]]
RowRecord(names, row) ==
    [kind |-> "row",
     fields |-> [i \in 1..Len(names) |-> IF names[i] \in DOMAIN row THEN row[names[i]] ELSE Blank]]

Op(op, name, value) == [op |-> op, name |-> name, value |-> value]

\* variant of the buffer key: the column key instead of its header
store_under_name(name, headers) == name

\* self.__csv_headers[name]
store_under_header(name, headers) == headers[name]

\* CsvFilter.set_column: the row buffer after the call
set_column(name, value, row, columns, headers) ==
    IF truthy(value) /\ name \in Range(columns)
    THEN DictSet(row, store_under_header(name, headers), value)
    ELSE row

\* variant of the reset after writerow: the buffer is kept
kept_row(row) == row

\* self.__current_row = {}
reset_row(row) == EmptyDict

InitCsv ==
    /\ template \in TemplateFiles
    /\ csv_columns = load_properties_keys(template)
    /\ csv_headers = load_properties(template)
    /\ csv_field_names = field_names(csv_columns, csv_headers)
    /\ current_row = EmptyDict
    /\ csv_file = <<>>
    /\ csv_raised = "none"
    /\ last_op = Op("new", "", PyNone)
    /\ row_before = EmptyDict
    /\ since_write = EmptyDict
    /\ nwrites = 0

IdleCsv ==
    /\ template = <<>>
    /\ csv_columns = <<>>
    /\ csv_headers = EmptyDict
    /\ csv_field_names = <<>>
    /\ current_row = EmptyDict
    /\ csv_file = <<>>
    /\ csv_raised = "none"
    /\ last_op = Op("new", "", PyNone)
    /\ row_before = EmptyDict
    /\ since_write = EmptyDict
    /\ nwrites = 0

\* the values passed for the row in progress, at the start of a call
SinceWrite == IF last_op.op = "write_row" THEN EmptyDict ELSE since_write

\* CsvFilter.write_header, called by main right after construction
WriteHeader ==
    /\ last_op.op = "new"
    /\ csv_file' = Append(csv_file, HeaderRecord(csv_field_names))
    /\ csv_raised' = "none"
    /\ last_op' = Op("write_header", "", PyNone)
    /\ row_before' = current_row
    /\ UNCHANGED <<template, csv_columns, csv_headers, csv_field_names, current_row, since_write, nwrites>>
    /\ UNCHANGED <<ledger_vars, exclude_vars, aux_vars>>

SetColumn ==
    /\ nwrites < MaxRows
    /\ \E name \in ColumnKeys, value \in Values :
        /\ current_row' = set_column(name, value, current_row, csv_columns, csv_headers)
        /\ last_op' = Op("set_column", name, value)
        /\ since_write' = IF value \in FalsyValues \/ name \notin Range(csv_columns)
                          THEN SinceWrite ELSE DictSet(SinceWrite, name, value)
    /\ csv_raised' = "none"
    /\ row_before' = current_row
    /\ UNCHANGED <<template, csv_columns, csv_headers, csv_field_names, csv_file, nwrites>>
    /\ UNCHANGED <<ledger_vars, exclude_vars, aux_vars>>

\* CsvFilter.write_row; DictWriter.writerow raises ValueError for a key that
\* is not a field name, before anything is written
WriteRow ==
    /\ nwrites < MaxRows
    /\ IF DOMAIN current_row \subseteq Range(csv_field_names)
       THEN /\ csv_file' = Append(csv_file, RowRecord(csv_field_names, current_row))
            /\ current_row' = reset_row(current_row)
            /\ csv_raised' = "none"
            /\ nwrites' = nwrites + 1
       ELSE /\ csv_raised' = "ValueError"
            /\ UNCHANGED <<csv_file, current_row, nwrites>>
    /\ last_op' = Op("write_row", "", PyNone)
    /\ row_before' = current_row
    /\ since_write' = SinceWrite
    /\ UNCHANGED <<template, csv_columns, csv_headers, csv_field_names>>
    /\ UNCHANGED <<ledger_vars, exclude_vars, aux_vars>>

\* ---------------------------------------------------------- fetch_details
MAX_TRIES == 3

\* what the detail endpoint can answer: a summaryDTO with content, an empty
\* one ({}), a null one, or a document without the key
DetailResponses == {"complete", "empty", "null", "missing"}

\* 'summaryDTO' in details
has_summary(response) == response # "missing"

\* bool(details['summaryDTO']), for a response that has the key
summary_truthy(response) == response = "complete"

InitDetails ==
    /\ fd_id \in ActivityIds
    /\ fd_tries = MAX_TRIES
    /\ fd_responses = <<>>
    /\ fd_result = "running"

IdleDetails ==
    /\ fd_id = NoId
    /\ fd_tries = 0
    /\ fd_responses = <<>>
    /\ fd_result = "idle"

\* one pass of the while loop of fetch_details
FetchDetailsTry ==
    /\ fd_result = "running"
    /\ fd_tries > 0
    /\ \E response \in DetailResponses :
        /\ fd_responses' = Append(fd_responses, response)
        /\ IF ~has_summary(response)
           THEN \* details['summaryDTO'] raises KeyError
                /\ fd_result' = "KeyError"
                /\ fd_tries' = fd_tries
           ELSE IF summary_truthy(response)
           THEN /\ fd_tries' = 0
                /\ fd_result' = "returned"
           ELSE /\ fd_tries' = fd_tries - 1
                /\ fd_result' = IF fd_tries - 1 = 0 THEN "GarminException" ELSE "running"
    /\ UNCHANGED <<fd_id, annotate_vars, run_vars, more_vars, ledger_vars, exclude_vars, csv_vars>>

\* ------------------------------------------------- annotate_activity_list
\* str() of a non-negative int: its decimal digits
RECURSIVE str_of_int(_)
str_of_int(n) == IF n < 10 THEN <<n>> ELSE Append(str_of_int(n \div 10), n % 10)

\* str(activity_type['typeId']) for the type IDs of the model
str_of_type_id(type_id) == IF type_id = 1 THEN "1" ELSE "2"

Summary(id, type_id, type_key) == [activityId |-> id, typeId |-> type_id, typeKey |-> type_key]

\* activity summaries of the list endpoint: running (typeId 1), cycling (2)
Summaries == {Summary(id, 1, "running") : id \in {1, 10, 11}} \cup {Summary(id, 2, "cycling") : id \in {1, 10, 11}}

NoFilter == [given |-> FALSE, types |-> <<>>]
TypeFilter(types) == [given |-> TRUE, types |-> types]
TypeFilters == {NoFilter, TypeFilter(<<"1">>), TypeFilter(<<"cycling">>), TypeFilter(<<"2", "running">>)}

Item(index, action, activity) == [index |-> index, action |-> action, activity |-> activity]

\* variant of the decision: the exclusion list is consulted before the start index
action_exclude_first(index, activity, start, exclude_list, type_filter) ==
    IF str_of_int(activity.activityId) \in Range(exclude_list) THEN "e"
    ELSE IF index < start - 1 THEN "s"
    ELSE IF /\ type_filter.given
            /\ str_of_type_id(activity.typeId) \notin Range(type_filter.types)
            /\ activity.typeKey \notin Range(type_filter.types)
         THEN "f"
    ELSE "d"

\* the if/elif/else of the loop body
action_of(index, activity, start, exclude_list, type_filter) ==
    IF index < start - 1 THEN "s"
    ELSE IF str_of_int(activity.activityId) \in Range(exclude_list) THEN "e"
    ELSE IF /\ type_filter.given
            /\ str_of_type_id(activity.typeId) \notin Range(type_filter.types)
            /\ activity.typeKey \notin Range(type_filter.types)
         THEN "f"
    ELSE "d"

RECURSIVE annotate_activity_list(_, _, _, _)
\* for index, activity in enumerate(activities): action_list.append(...)
annotate_activity_list(activities, start, exclude_list, type_filter) ==
    IF activities = <<>> THEN <<>>
    ELSE LET n == Len(activities)
         IN  Append(annotate_activity_list(SubSeq(activities, 1, n - 1), start, exclude_list, type_filter),
                    Item(n - 1, action_of(n - 1, activities[n], start, exclude_list, type_filter), activities[n]))

NotAnnotated == <<Item(0 - 1, "", Summary(0, 0, ""))>>

\* exclusion lists as read_exclude returns them
AnnotateExcludeLists == {<<>>} \cup {<<x>> : x \in ActivityIds} \cup {<<<<1>>, <<1, 0>>>>}

InitAnnotate ==
    /\ an_activities \in UNION {[1..n -> Summaries] : n \in 0..MaxActivities}
    /\ an_start \in 0..(MaxActivities + 1)
    /\ an_exclude \in AnnotateExcludeLists
    /\ an_filter \in TypeFilters
    /\ an_result = NotAnnotated

IdleAnnotate ==
    /\ an_activities = <<>>
    /\ an_start = 1
    /\ an_exclude = <<>>
    /\ an_filter = NoFilter
    /\ an_result = NotAnnotated

AnnotateActivityList ==
    /\ an_result = NotAnnotated
    /\ an_result' = annotate_activity_list(an_activities, an_start, an_exclude, an_filter)
    /\ UNCHANGED <<an_activities, an_start, an_exclude, an_filter, details_vars, run_vars, more_vars,
                   ledger_vars, exclude_vars, csv_vars>>

\* ------------------------------------------------------------------- main
\* args.format
Formats == {"gpx", "tcx", "original", "json"}

\* the activity list the list endpoint answers with, most recent first
RunActivities == <<Summary(11, 1, "running"), Summary(10, 2, "cycling"), Summary(1, 1, "running")>>

\* the text of an activity ID as a CSV field
id_text(id) == CASE id = 1 -> "1" [] id = 10 -> "10" [] id = 11 -> "11"

\* --start_activity_no and the exclusion list of a run
RunSelections ==
    {[start |-> 1, exclude |-> <<>>, type_filter |-> NoFilter],
     [start |-> 2, exclude |-> <<>>, type_filter |-> NoFilter],
     [start |-> 1, exclude |-> <<<<1, 0>>>>, type_filter |-> NoFilter],
     [start |-> 1, exclude |-> <<>>, type_filter |-> TypeFilter(<<"running">>)]}

Args(format, unzip, count, selection) ==
    [format |-> format, unzip |-> unzip, count |-> count,
     start_activity_no |-> selection.start, exclude |-> selection.exclude,
     type_filter |-> selection.type_filter]

\* the column template of the runs: 'A' is filled with the activity ID, 'B'
\* with a value that is None
RunTemplate == <<PropertyLine("A", "Col 1"), PropertyLine("B", "Col 2")>>

FileName(id, ext) == [id |-> id, ext |-> ext]

\* the extension of data_filename
extension(format) ==
    CASE format = "gpx" -> "gpx"
      [] format = "tcx" -> "tcx"
      [] format = "original" -> "zip"
      [] format = "json" -> "json"

data_filename(format, id) == FileName(id, extension(format))

file_mode(format) == IF format = "original" THEN "wb" ELSE "w"

\* variant of the existence checks: no file is ever found
never_exported(format, id, files) == FALSE

\* os.path.isfile(data_filename), or for 'original' one of the unzipped files
already_exported(format, id, files) ==
    \/ data_filename(format, id) \in DOMAIN files
    \/ /\ format = "original"
       /\ \E ext \in {"fit", "gpx", "tcx"} : FileName(id, ext) \in DOMAIN files

\* the status codes the download endpoint answers with
Statuses == {200, 204, 403, 404, 500}

\* variant of the tolerated errors: HTTP 500 whatever the format
expected_any_500(code, format) ==
    \/ code = 500
    \/ code = 404 /\ format = "original"

\* the two HTTPError codes export_data_file handles
expected_error(code, format) ==
    \/ code = 500 /\ format = "tcx"
    \/ code = 404 /\ format = "original"

\* what data can hold: bytes of a response body, b'', the str '', the str
\* of the activity details
IsStr(content) == content \in {"empty_str", "details"}
IsEmpty(content) == content \in {"empty_bytes", "empty_str"}

WriteResult(exc, created, content) == [exc |-> exc, created |-> created, content |-> content]

\* write_to_file: mode 'w' decodes bytes and writes; mode 'wb' opens the file
\* and write() rejects a str
write_to_file(content, mode) ==
    IF mode = "w" THEN WriteResult("none", TRUE, IF IsEmpty(content) THEN "empty" ELSE "full")
    ELSE IF IsStr(content) THEN WriteResult("TypeError", TRUE, "empty")
    ELSE WriteResult("none", TRUE, IF IsEmpty(content) THEN "empty" ELSE "full")

\* os.remove(name)
Remove(files, name) == [x \in DOMAIN files \ {name} |-> files[x]]

\* the zip branch after the ledger update: a zip with content is extracted to
\* activity_<id>.fit, and the zip is removed
unzip_and_remove(files, id) ==
    LET zip == FileName(id, "zip")
        extracted == IF files[zip] = "full" THEN DictSet(files, FileName(id, "fit"), "full") ELSE files
    IN  Remove(extracted, zip)

Event(kind, id, status) == [kind |-> kind, id |-> id, status |-> status]

\* variant of the decision to write the header: always
header_always(existed) == TRUE

\* if not csv_existed
header_wanted(existed) == ~existed

\* variant of the test of export_data_file's result: the row is always written
row_always(exported) == TRUE

\* if export_data_file(...)
row_wanted(exported) == exported

\* variant of the loop: every other item
every_other_item(ix) == ix + 2

\* for item in action_list
next_item(ix) == ix + 1

\* csv_write_record: the row buffer after the set_column calls
csv_write_record(id, row, columns, headers) ==
    set_column("B", PyNone, set_column("A", PyStr(id_text(id)), row, columns, headers), columns, headers)

InitRun ==
    /\ pc = "idle"
    /\ \E format \in Formats, count \in 0..MaxActivities, selection \in RunSelections :
            args = Args(format, FALSE, count, selection)
    /\ action_list = <<>>
    /\ item_ix = 0
    /\ csv_existed = FALSE
    /\ data = "none"
    /\ data_files = EmptyDict
    /\ csv_on_disk = FALSE
    /\ run_exception = "none"
    /\ exit_status = 0
    /\ fresh = TRUE
    /\ events = <<>>
    /\ existed_at_check = {}
    /\ written = {}
    /\ interrupted = {}

IdleRun ==
    /\ pc = "off"
    /\ args = Args("gpx", FALSE, 0, [start |-> 1, exclude |-> <<>>, type_filter |-> NoFilter])
    /\ action_list = <<>>
    /\ item_ix = 0
    /\ csv_existed = FALSE
    /\ data = "none"
    /\ data_files = EmptyDict
    /\ csv_on_disk = FALSE
    /\ run_exception = "none"
    /\ exit_status = 0
    /\ fresh = TRUE
    /\ events = <<>>
    /\ existed_at_check = {}
    /\ written = {}
    /\ interrupted = {}

\* the directory state the run works on
InitRunCsv ==
    /\ template = RunTemplate
    /\ csv_columns = <<>>
    /\ csv_headers = EmptyDict
    /\ csv_field_names = <<>>
    /\ current_row = EmptyDict
    /\ csv_file = <<>>
    /\ csv_raised = "none"
    /\ last_op = Op("new", "", PyNone)
    /\ row_before = EmptyDict
    /\ since_write = EmptyDict
    /\ nwrites = 0

\* the activity the loop is at, and its ID as a str
CurrentItem == action_list[item_ix]
CurrentId == str_of_int(CurrentItem.activity.activityId)

\* an exception leaves main
Raise(exc) ==
    /\ pc' = "raised"
    /\ run_exception' = exc

ledger_ghosts == <<ledger_start, ledger_before, last_id, raised, ncalls, passed, recorded>>
csv_ghosts == <<csv_raised, last_op, row_before, since_write, nwrites>>
csv_filter == <<template, csv_columns, csv_headers, csv_field_names, current_row>>
other_vars == <<exclude_vars, details_vars, annotate_vars, ledger_ghosts, csv_ghosts, more_vars, interrupted>>

\* main, from parse_arguments to annotate_activity_list
StartRun ==
    /\ pc \in {"idle", "exited"}
    /\ Len(csv_file) <= MaxRows + 1
    /\ \E unzip \in {u \in BOOLEAN : u => args.format = "original"},
          setup \in {"ok", "exclude file missing", "login failed"} :
        /\ args' = [args EXCEPT !.unzip = unzip]
        /\ IF setup = "exclude file missing"
           THEN \* read_exclude returned None: sys.exit(1)
                /\ pc' = "exited"
                /\ exit_status' = 1
                /\ run_exception' = "none"
                /\ action_list' = <<>>
           ELSE IF setup = "login failed"
           THEN /\ Raise("GarminException")
                /\ action_list' = <<>>
                /\ UNCHANGED exit_status
           ELSE /\ pc' = "open csv"
                /\ run_exception' = "none"
                /\ action_list' = annotate_activity_list(SubSeq(RunActivities, 1, args.count),
                                        args.start_activity_no, args.exclude, args.type_filter)
                /\ UNCHANGED exit_status
    /\ fresh' = (ledger = Absent /\ data_files = EmptyDict /\ ~csv_on_disk)
    /\ item_ix' = 0
    /\ data' = "none"
    /\ events' = <<>>
    /\ existed_at_check' = {}
    /\ UNCHANGED <<csv_existed, data_files, csv_on_disk, written, ledger, csv_filter, csv_file, other_vars>>

\* main: csv_existed, open(csv_filename, 'a'), CsvFilter(), write_header()
OpenCsv ==
    /\ pc = "open csv"
    /\ csv_existed' = csv_on_disk
    /\ csv_on_disk' = TRUE
    /\ csv_columns' = load_properties_keys(template)
    /\ csv_headers' = load_properties(template)
    /\ csv_field_names' = field_names(csv_columns', csv_headers')
    /\ current_row' = EmptyDict
    /\ IF header_wanted(csv_on_disk)
       THEN /\ csv_file' = Append(csv_file, HeaderRecord(csv_field_names'))
            /\ events' = events \o <<Event("open", NoId, 0), Event("header", NoId, 0)>>
       ELSE /\ events' = Append(events, Event("open", NoId, 0))
            /\ UNCHANGED csv_file
    /\ pc' = "loop"
    /\ UNCHANGED <<args, action_list, item_ix, data, data_files, run_exception, exit_status, fresh,
                   existed_at_check, written, template, ledger, other_vars>>

\* variant of the early returns: only for action 's'
returns_for_skip_only(action) == action = "s"

\* process_activity_item: if action == 's' / 'e' / 'f': return
returns_early(action) == action \in {"s", "e", "f"}

\* the loop reaches an item with action 'd'
LoopDownload ==
    /\ pc = "loop"
    /\ next_item(item_ix) <= Len(action_list)
    /\ ~returns_early(action_list[next_item(item_ix)].action)
    /\ item_ix' = next_item(item_ix)
    /\ pc' = "details"
    /\ UNCHANGED <<args, action_list, csv_existed, data, data_files, csv_on_disk, run_exception, exit_status,
                   fresh, events, existed_at_check, written, ledger, csv_filter, csv_file, other_vars>>

\* the loop reaches an item with action 's', 'e' or 'f': process_activity_item returns
LoopSkip ==
    /\ pc = "loop"
    /\ next_item(item_ix) <= Len(action_list)
    /\ returns_early(action_list[next_item(item_ix)].action)
    /\ item_ix' = next_item(item_ix)
    /\ UNCHANGED <<pc, args, action_list, csv_existed, data, data_files, csv_on_disk, run_exception,
                   exit_status, fresh, events, existed_at_check, written, ledger, csv_filter, csv_file,
                   other_vars>>

\* the loop is over: main returns
LoopEnd ==
    /\ pc = "loop"
    /\ next_item(item_ix) > Len(action_list)
    /\ pc' = "exited"
    /\ exit_status' = 0
    /\ events' = Append(events, Event("done", NoId, 0))
    /\ UNCHANGED <<args, action_list, item_ix, csv_existed, data, data_files, csv_on_disk, run_exception,
                   fresh, existed_at_check, written, ledger, csv_filter, csv_file, other_vars>>

\* process_activity_item: fetch_details and the other lookups before the export
FetchDetails ==
    /\ pc = "details"
    /\ \E outcome \in {"ok", "GarminException"} :
        IF outcome = "ok"
        THEN /\ pc' = "export"
             /\ events' = Append(events, Event("details", CurrentId, 0))
             /\ UNCHANGED run_exception
        ELSE /\ Raise(outcome)
             /\ UNCHANGED events
    /\ UNCHANGED <<args, action_list, item_ix, csv_existed, data, data_files, csv_on_disk, exit_status, fresh,
                   existed_at_check, written, ledger, csv_filter, csv_file, other_vars>>

\* export_data_file up to the existence checks; return False when the file is there
ExportCheck ==
    /\ pc = "export"
    /\ IF already_exported(args.format, CurrentId, data_files)
       THEN /\ pc' = IF row_wanted(FALSE) THEN "csv" ELSE "loop"
            /\ UNCHANGED data
       ELSE IF args.format # "json"
       THEN /\ pc' = "download"
            /\ UNCHANGED data
       ELSE /\ pc' = "write"
            /\ data' = "details"
    /\ existed_at_check' =
            IF \E ext \in {"gpx", "tcx", "zip", "json", "fit"} :
                    /\ FileName(CurrentId, ext) \in DOMAIN data_files
                    /\ \/ ext = extension(args.format)
                       \/ args.format = "original" /\ ext \in {"fit", "gpx", "tcx"}
            THEN existed_at_check \cup {CurrentId}
            ELSE existed_at_check
    /\ UNCHANGED <<args, action_list, item_ix, csv_existed, data_files, csv_on_disk, run_exception,
                   exit_status, fresh, events, written, ledger, csv_filter, csv_file, other_vars>>

\* export_data_file: data = http_req(download_url) and the except clause
Download ==
    /\ pc = "download"
    /\ \E status \in Statuses :
        /\ events' = Append(events, Event("request", CurrentId, status))
        /\ IF status = 200
           THEN data' = "bytes" /\ pc' = "write" /\ UNCHANGED run_exception
           ELSE IF status = 204
           THEN data' = "empty_bytes" /\ pc' = "write" /\ UNCHANGED run_exception
           ELSE IF expected_error(status, args.format)
           THEN data' = "empty_str" /\ pc' = "write" /\ UNCHANGED run_exception
           ELSE Raise("GarminException") /\ UNCHANGED data
    /\ UNCHANGED <<args, action_list, item_ix, csv_existed, data_files, csv_on_disk, exit_status, fresh,
                   existed_at_check, written, ledger, csv_filter, csv_file, other_vars>>

\* export_data_file: write_to_file(data_filename, data, file_mode, file_time)
WriteToFile ==
    /\ pc = "write"
    /\ LET result == write_to_file(data, file_mode(args.format))
       IN  /\ data_files' = IF result.created
                            THEN DictSet(data_files, data_filename(args.format, CurrentId), result.content)
                            ELSE data_files
           /\ IF result.exc = "none"
              THEN /\ pc' = "ledger"
                   /\ events' = Append(events, Event("file", CurrentId, 0))
                   /\ written' = written \cup {CurrentId}
                   /\ UNCHANGED run_exception
              ELSE /\ Raise(result.exc)
                   /\ UNCHANGED <<events, written>>
    /\ UNCHANGED <<args, action_list, item_ix, csv_existed, data, csv_on_disk, exit_status, fresh,
                   existed_at_check, ledger, csv_filter, csv_file, other_vars>>

\* export_data_file: update_download_stats(activity_id, args.directory)
UpdateLedger ==
    /\ pc = "ledger"
    /\ LET out == update_download_stats(CurrentId, ledger)
       IN  /\ ledger' = out.file
           /\ IF out.raised = "none"
              THEN /\ pc' = IF args.format = "original" /\ args.unzip THEN "unzip"
                            ELSE IF row_wanted(TRUE) THEN "csv" ELSE "loop"
                   /\ events' = Append(events, Event("ledger", CurrentId, 0))
                   /\ UNCHANGED run_exception
              ELSE /\ Raise(out.raised)
                   /\ UNCHANGED events
    /\ UNCHANGED <<args, action_list, item_ix, csv_existed, data, data_files, csv_on_disk, exit_status, fresh,
                   existed_at_check, written, csv_filter, csv_file, other_vars>>

\* export_data_file: the args.unzip branch, then return True
Unzip ==
    /\ pc = "unzip"
    /\ data_files' = unzip_and_remove(data_files, CurrentId)
    /\ pc' = IF row_wanted(TRUE) THEN "csv" ELSE "loop"
    /\ UNCHANGED <<args, action_list, item_ix, csv_existed, data, csv_on_disk, run_exception, exit_status,
                   fresh, events, existed_at_check, written, ledger, csv_filter, csv_file, other_vars>>

\* process_activity_item: csv_write_record(...), ending with write_row
CsvWriteRecord ==
    /\ pc = "csv"
    /\ LET row == csv_write_record(CurrentItem.activity.activityId, current_row, csv_columns, csv_headers)
       IN  /\ csv_file' = Append(csv_file, RowRecord(csv_field_names, row))
           /\ current_row' = reset_row(row)
    /\ events' = Append(events, Event("csv", CurrentId, 0))
    /\ pc' = "loop"
    /\ UNCHANGED <<args, action_list, item_ix, csv_existed, data, data_files, csv_on_disk, run_exception,
                   exit_status, fresh, existed_at_check, written, ledger, template, csv_columns, csv_headers,
                   csv_field_names, other_vars>>

\* the process is stopped while it works on an activity: KeyboardInterrupt
\* passes main's except Exception, __main__ prints 'Interrupted' and exits
Interrupt ==
    /\ pc \in {"details", "export", "download", "write", "ledger", "unzip", "csv"}
    /\ pc' = "exited"
    /\ exit_status' = 0
    /\ interrupted' = interrupted \cup {CurrentId}
    /\ UNCHANGED <<args, action_list, item_ix, csv_existed, data, data_files, csv_on_disk, run_exception,
                   fresh, events, existed_at_check, written, ledger, csv_filter, csv_file>>
    /\ UNCHANGED <<exclude_vars, details_vars, annotate_vars, ledger_ghosts, csv_ghosts, more_vars>>

\* __main__: except Exception logs the error; the interpreter then ends normally
MainGuard ==
    /\ pc = "raised"
    /\ pc' = "exited"
    /\ exit_status' = 0
    /\ UNCHANGED <<args, action_list, item_ix, csv_existed, data, data_files, csv_on_disk, run_exception,
                   fresh, events, existed_at_check, written, ledger, csv_filter, csv_file, other_vars>>

\* ------------------------------------- process_activity_item: optional lookups
\* column keys of the template that matter for the optional lookups
HrZoneColumns == {"hrZone1Low", "hrZone1Seconds", "hrZone2Low", "hrZone5Seconds"}
SubColumns == {"id", "sampleCount", "gear"} \cup HrZoneColumns

SubTemplates == UNION {[1..n -> {PropertyLine(k, "Col 1") : k \in SubColumns}] : n \in 0..MaxLines}

\* CsvFilter.is_column_active
is_column_active(name, columns) == name \in Range(columns)

InitSub ==
    /\ template \in SubTemplates
    /\ csv_columns = load_properties_keys(template)
    /\ csv_headers = load_properties(template)
    /\ csv_field_names = field_names(csv_columns, csv_headers)
    /\ current_row = EmptyDict
    /\ csv_file = <<>>
    /\ csv_raised = "none"
    /\ last_op = Op("new", "", PyNone)
    /\ row_before = EmptyDict
    /\ since_write = EmptyDict
    /\ nwrites = 0
    /\ sub_pc = "samples"
    /\ sub_requests = {}

IdleSub ==
    /\ sub_pc = "off"
    /\ sub_requests = {}

\* if csv_filter.is_column_active('sampleCount'): request the samples
LookupSamples ==
    /\ sub_pc = "samples"
    /\ sub_requests' = IF is_column_active("sampleCount", csv_columns)
                       THEN sub_requests \cup {"samples"} ELSE sub_requests
    /\ sub_pc' = "gear"
    /\ UNCHANGED <<ledger_vars, exclude_vars, csv_vars, details_vars, annotate_vars, run_vars, list_vars,
                   multi_vars, device_vars, zone_vars, late_vars>>

\* if csv_filter.is_column_active('gear'): load_gear
LookupGear ==
    /\ sub_pc = "gear"
    /\ sub_requests' = IF is_column_active("gear", csv_columns)
                       THEN sub_requests \cup {"gear"} ELSE sub_requests
    /\ sub_pc' = "zones"
    /\ UNCHANGED <<ledger_vars, exclude_vars, csv_vars, details_vars, annotate_vars, run_vars, list_vars,
                   multi_vars, device_vars, zone_vars, late_vars>>

\* if is_column_active('hrZone1Low') or is_column_active('hrZone1Seconds'): load_zones
LookupZones ==
    /\ sub_pc = "zones"
    /\ sub_requests' = IF \/ is_column_active("hrZone1Low", csv_columns)
                          \/ is_column_active("hrZone1Seconds", csv_columns)
                       THEN sub_requests \cup {"zones"} ELSE sub_requests
    /\ sub_pc' = "done"
    /\ UNCHANGED <<ledger_vars, exclude_vars, csv_vars, details_vars, annotate_vars, run_vars, list_vars,
                   multi_vars, device_vars, zone_vars, late_vars>>

\* ------------------------------------------------------ fetch_activity_list
LIMIT_MAXIMUM == 1000

\* variant of the chunk size: always the maximum
chunk_maximum(total, downloaded) == LIMIT_MAXIMUM

\* num_to_download: the maximum, or whatever remains if less
num_to_download(total, downloaded) ==
    IF total - downloaded > LIMIT_MAXIMUM THEN LIMIT_MAXIMUM ELSE total - downloaded

\* search_params of fetch_activity_chunk
SearchParams(start, limit) == [start |-> start, limit |-> limit]

InitList ==
    /\ total_to_download \in 0..MaxTotal
    /\ total_downloaded = 0
    /\ chunk_requests = <<>>
    /\ activities_len = 0
    /\ list_returned = FALSE

IdleList ==
    /\ total_to_download = 0
    /\ total_downloaded = 0
    /\ chunk_requests = <<>>
    /\ activities_len = 0
    /\ list_returned = TRUE

\* one pass of the while loop: fetch_activity_chunk, extend, count; the
\* server answers with as many summaries as asked for, or with none
FetchChunk ==
    /\ ~list_returned
    /\ total_downloaded < total_to_download
    /\ LET num == num_to_download(total_to_download, total_downloaded)
       IN  /\ chunk_requests' = Append(chunk_requests, SearchParams(total_downloaded, num))
           /\ \E chunk_len \in {0, num} : activities_len' = activities_len + chunk_len
           /\ total_downloaded' = total_downloaded + num
    /\ UNCHANGED <<total_to_download, list_returned, sub_vars, multi_vars, device_vars, zone_vars, late_vars>>
    /\ UNCHANGED <<ledger_vars, exclude_vars, csv_vars, details_vars, annotate_vars, run_vars>>

\* the loop condition fails: return activities
ReturnList ==
    /\ ~list_returned
    /\ ~(total_downloaded < total_to_download)
    /\ list_returned' = TRUE
    /\ UNCHANGED <<total_to_download, total_downloaded, chunk_requests, activities_len, sub_vars, multi_vars,
                   device_vars, zone_vars, late_vars>>
    /\ UNCHANGED <<ledger_vars, exclude_vars, csv_vars, details_vars, annotate_vars, run_vars>>

\* -------------------------------------------------------- fetch_multisports
\* a summary as far as fetch_multisports reads it: the ID and whether
\* activityType.typeKey is 'multi_sport'
MultiSummary(id, multi) == [activityId |-> id, multi_sport |-> multi]

\* the summaries of a chunk: two plain activities, two multi_sport ones
ChunkSummaries == {MultiSummary(1, FALSE), MultiSummary(2, FALSE), MultiSummary(10, TRUE), MultiSummary(20, TRUE)}

\* details['metadataDTO']['childIds'], or None when the key is missing
NoChildIds == [given |-> FALSE, ids |-> <<>>]
ChildIds(ids) == [given |-> TRUE, ids |-> ids]

\* what the detail endpoint can say about the two multi_sport activities
ChildIdTables ==
    {[id \in {10, 20} |-> IF id = 10 THEN a ELSE b] :
        a \in {ChildIds(<<11, 12>>), ChildIds(<<>>)}, b \in {ChildIds(<<21>>), NoChildIds}}

\* list.insert(index, x), index counted from 0
list_insert(list, index, x) ==
    SubSeq(list, 1, index) \o <<x>> \o SubSeq(list, index + 1, Len(list))

RECURSIVE insert_forward(_, _, _)
\* variant of the insertion: the children are taken in the order of childIds
insert_forward(list, index, child_ids) ==
    IF child_ids = <<>> THEN list
    ELSE insert_forward(list_insert(list, index, MultiSummary(child_ids[1], FALSE)), index,
                        SubSeq(child_ids, 2, Len(child_ids)))

RECURSIVE insert_reversed(_, _, _)
\* for child_id in reversed(child_ids): activity_summaries.insert(idx + 1, child_summary)
insert_reversed(list, index, child_ids) ==
    IF child_ids = <<>> THEN list
    ELSE insert_reversed(list_insert(list, index, MultiSummary(child_ids[Len(child_ids)], FALSE)), index,
                         SubSeq(child_ids, 1, Len(child_ids) - 1))

InitMulti ==
    /\ activity_summaries \in UNION {[1..n -> ChunkSummaries] : n \in 0..MaxActivities}
    /\ idx = 0
    /\ summaries_before = activity_summaries
    /\ child_ids_of \in ChildIdTables
    /\ multisports_result = "running"

IdleMulti ==
    /\ activity_summaries = <<>>
    /\ idx = 0
    /\ summaries_before = <<>>
    /\ child_ids_of = [id \in {10, 20} |-> NoChildIds]
    /\ multisports_result = "idle"

\* one pass of the for loop over the list as it is now
MultisportsStep ==
    /\ multisports_result = "running"
    /\ idx < Len(activity_summaries)
    /\ LET child_summary == activity_summaries[idx + 1]
       IN  IF ~child_summary.multi_sport
           THEN UNCHANGED <<activity_summaries, multisports_result>>
           ELSE IF ~child_ids_of[child_summary.activityId].given
           THEN \* reversed(None)
                /\ multisports_result' = "TypeError"
                /\ UNCHANGED activity_summaries
           ELSE /\ activity_summaries' =
                        insert_reversed(activity_summaries, idx + 1, child_ids_of[child_summary.activityId].ids)
                /\ UNCHANGED multisports_result
    /\ idx' = idx + 1
    /\ UNCHANGED <<summaries_before, child_ids_of, sub_vars, list_vars, device_vars, zone_vars, late_vars>>
    /\ UNCHANGED <<ledger_vars, exclude_vars, csv_vars, details_vars, annotate_vars, run_vars>>

\* the iteration is exhausted
MultisportsReturn ==
    /\ multisports_result = "running"
    /\ idx >= Len(activity_summaries)
    /\ multisports_result' = "returned"
    /\ UNCHANGED <<activity_summaries, idx, summaries_before, child_ids_of, sub_vars, list_vars, device_vars,
                   zone_vars, late_vars>>
    /\ UNCHANGED <<ledger_vars, exclude_vars, csv_vars, details_vars, annotate_vars, run_vars>>

\* ----------------------------------------------------------- extract_device
\* details as far as extract_device reads them: whether metadataDTO is
\* present, deviceApplicationInstallationId (0 for missing or null), and
\* deviceMetaDataDTO.deviceId: the key missing, null, '0', or an ID
DeviceDetails ==
    [metadata : BOOLEAN, device_app_inst_id : {0, 1, 2}, device_id : {"missing", "null", "0", "id"}]

\* what the device endpoint can do: fail, or answer with an empty body, a
\* document without productDisplayName, or a complete one
DeviceResponses == {"HTTPError", "empty", "incomplete", "complete"}

\* variant of the cache test: an entry of None counts as a miss
not_cached_or_none(device_app_inst_id, dict) ==
    device_app_inst_id \notin DOMAIN dict \/ dict[device_app_inst_id] = "None"

\* if device_app_inst_id not in device_dict
not_cached(device_app_inst_id, dict) == device_app_inst_id \notin DOMAIN dict

\* if 'deviceId' not in device_meta or device_id and device_id != '0'
device_known(device_id) == device_id = "missing" \/ device_id = "id"

\* device_dict[device_app_inst_id] after the response was handled
device_name(response) ==
    CASE response = "empty" -> "device-id"
      [] response = "complete" -> "name"
      [] OTHER -> "None"

DeviceCall(details, requested, result) == [details |-> details, requested |-> requested, result |-> result]

InitDevice ==
    /\ device_dict = EmptyDict
    /\ device_requests = <<>>
    /\ device_call = DeviceCall([metadata |-> FALSE, device_app_inst_id |-> 0, device_id |-> "missing"], FALSE, "None")
    /\ device_calls = 0

IdleDevice ==
    /\ device_dict = EmptyDict
    /\ device_requests = <<>>
    /\ device_call = DeviceCall([metadata |-> FALSE, device_app_inst_id |-> 0, device_id |-> "missing"], FALSE, "None")
    /\ device_calls = MaxCalls

\* one call of extract_device with the shared device_dict
ExtractDevice ==
    /\ device_calls < MaxCalls
    /\ device_calls' = device_calls + 1
    /\ \E details \in DeviceDetails, response \in DeviceResponses :
        LET id == details.device_app_inst_id
        IN  IF ~details.metadata \/ id = 0
            THEN /\ device_call' = DeviceCall(details, FALSE, "None")
                 /\ UNCHANGED <<device_dict, device_requests>>
            ELSE IF ~not_cached(id, device_dict)
            THEN /\ device_call' = DeviceCall(details, FALSE, device_dict[id])
                 /\ UNCHANGED <<device_dict, device_requests>>
            ELSE IF ~device_known(details.device_id)
            THEN /\ device_dict' = DictSet(device_dict, id, "None")
                 /\ device_call' = DeviceCall(details, FALSE, "None")
                 /\ UNCHANGED device_requests
            ELSE /\ device_requests' = Append(device_requests, id)
                 /\ device_dict' = DictSet(device_dict, id, device_name(response))
                 /\ device_call' = DeviceCall(details, TRUE,
                                        IF response = "HTTPError" THEN "HTTPError" ELSE device_name(response))
    /\ UNCHANGED <<sub_vars, list_vars, multi_vars, zone_vars, late_vars>>
    /\ UNCHANGED <<ledger_vars, exclude_vars, csv_vars, details_vars, annotate_vars, run_vars>>

\* --------------------------------------------------------------- load_zones
ZoneNumbers == 1..5

\* an entry of a zones list: None, or the dict built from the response of
\* the activity with the given number
NoZone == [set |-> FALSE, activity |-> 0]
Zone(activity) == [set |-> TRUE, activity |-> activity]

InitZones ==
    /\ HR_ZONES_EMPTY = [i \in ZoneNumbers |-> NoZone]
    /\ hr_zones = [i \in ZoneNumbers |-> NoZone]
    /\ zones_raw = {}
    /\ zone_calls = 0

IdleZones ==
    /\ HR_ZONES_EMPTY = [i \in ZoneNumbers |-> NoZone]
    /\ hr_zones = [i \in ZoneNumbers |-> NoZone]
    /\ zones_raw = {}
    /\ zone_calls = MaxCalls

\* load_zones for the next activity: zones = HR_ZONES_EMPTY binds zones to
\* the module-level list itself, and zones[index] = {...} assigns into it
LoadZones ==
    /\ zone_calls < MaxCalls
    /\ zone_calls' = zone_calls + 1
    /\ \E response \in SUBSET ZoneNumbers :
        /\ zones_raw' = response
        /\ HR_ZONES_EMPTY' = [i \in ZoneNumbers |-> IF i \in response THEN Zone(zone_calls + 1)
                                                     ELSE HR_ZONES_EMPTY[i]]
        /\ hr_zones' = HR_ZONES_EMPTY'
    /\ UNCHANGED <<sub_vars, list_vars, multi_vars, device_vars, late_vars>>
    /\ UNCHANGED <<ledger_vars, exclude_vars, csv_vars, details_vars, annotate_vars, run_vars>>

\* process_activity_item for an activity whose zones are not fetched:
\* extract['hrZones'] = HR_ZONES_EMPTY
ZonesNotFetched ==
    /\ zone_calls < MaxCalls
    /\ zone_calls' = zone_calls + 1
    /\ zones_raw' = {}
    /\ hr_zones' = HR_ZONES_EMPTY
    /\ UNCHANGED <<HR_ZONES_EMPTY, sub_vars, list_vars, multi_vars, device_vars, late_vars>>
    /\ UNCHANGED <<ledger_vars, exclude_vars, csv_vars, details_vars, annotate_vars, run_vars>>

\* ------------------------------------------------ login_to_garmin_connect
\* args.session: the option is not given, is the empty string, or names a directory
SessionArgs == {PyNone, PyStr(""), PyStr("session")}

\* how a call into garth (or the prompt for the credentials) ends: normally,
\* or with an exception of the named class ("Exception": any other class)
GarthOutcomes == {"ok", "GarthException", "FileNotFoundError", "AssertionError", "Exception"}

GarthCall(name, outcome) == [call |-> name, outcome |-> outcome]

\* the exception classes the handlers around garth.resume catch
resume_caught(outcome) == outcome \in {"GarthException", "FileNotFoundError"}

\* variant of the handlers around garth.client.username: GarthException only
only_garth_caught(outcome) == outcome = "GarthException"

\* the exception classes the handlers around garth.client.username catch
username_caught(outcome) == outcome \in {"GarthException", "AssertionError"}

\* the exception class the handler around garth.save catches
save_caught(outcome) == outcome = "GarthException"

InitLogin ==
    /\ login_pc = "start"
    /\ garth_session_directory = PyNone
    /\ login_required = FALSE
    /\ garth_calls = <<>>
    /\ login_raised = "none"

IdleLogin ==
    /\ login_pc = "off"
    /\ garth_session_directory = PyNone
    /\ login_required = FALSE
    /\ garth_calls = <<>>
    /\ login_raised = "none"

login_rest == <<ledger_vars, exclude_vars, csv_vars, details_vars, annotate_vars, run_vars,
                sub_vars, list_vars, multi_vars, device_vars, zone_vars, pm_vars, odt_vars>>

\* the outer handler: any exception leaves the function as a GarminException
LoginAbort ==
    /\ login_pc' = "raised"
    /\ login_raised' = "GarminException"

\* the head of the function and the test of garth_session_directory
LoginStart ==
    /\ login_pc = "start"
    /\ \E session \in SessionArgs :
        /\ garth_session_directory' = IF truthy(session) THEN session ELSE PyNone
        /\ login_required' = ~truthy(session)
        /\ login_pc' = IF truthy(session) THEN "resume" ELSE "login"
    /\ UNCHANGED <<garth_calls, login_raised>>
    /\ UNCHANGED login_rest

GarthResume ==
    /\ login_pc = "resume"
    /\ \E outcome \in GarthOutcomes :
        /\ garth_calls' = Append(garth_calls, GarthCall("resume", outcome))
        /\ IF outcome = "ok"
           THEN login_pc' = "username" /\ UNCHANGED <<login_required, login_raised>>
           ELSE IF resume_caught(outcome)
           THEN login_pc' = "username" /\ login_required' = TRUE /\ UNCHANGED login_raised
           ELSE LoginAbort /\ UNCHANGED login_required
    /\ UNCHANGED garth_session_directory
    /\ UNCHANGED login_rest

GarthUsername ==
    /\ login_pc = "username"
    /\ \E outcome \in GarthOutcomes :
        /\ garth_calls' = Append(garth_calls, GarthCall("username", outcome))
        /\ IF outcome = "ok"
           THEN /\ login_pc' = IF login_required THEN "login" ELSE "returned"
                /\ UNCHANGED <<login_required, login_raised>>
           ELSE IF username_caught(outcome)
           THEN login_pc' = "login" /\ login_required' = TRUE /\ UNCHANGED login_raised
           ELSE LoginAbort /\ UNCHANGED login_required
    /\ UNCHANGED garth_session_directory
    /\ UNCHANGED login_rest

\* the prompts for the credentials and garth.login
GarthLogin ==
    /\ login_pc = "login"
    /\ login_required
    /\ \E outcome \in GarthOutcomes :
        /\ garth_calls' = Append(garth_calls, GarthCall("login", outcome))
        /\ IF outcome = "ok"
           THEN /\ login_pc' = IF truthy(garth_session_directory) THEN "save" ELSE "returned"
                /\ UNCHANGED login_raised
           ELSE LoginAbort
    /\ UNCHANGED <<garth_session_directory, login_required>>
    /\ UNCHANGED login_rest

GarthSave ==
    /\ login_pc = "save"
    /\ \E outcome \in GarthOutcomes :
        /\ garth_calls' = Append(garth_calls, GarthCall("save", outcome))
        /\ IF outcome = "ok" \/ save_caught(outcome)
           THEN login_pc' = "returned" /\ UNCHANGED login_raised
           ELSE LoginAbort
    /\ UNCHANGED <<garth_session_directory, login_required>>
    /\ UNCHANGED login_rest

\* -------------------------------------------------------- PasswordManager
\* a concrete subclass, as far as the base class looks at it: whether its
\* destroy_session calls super().destroy_session(), the free variables of
\* that method's code object (a zero-argument super() makes __class__ one),
\* and whether its get_session looks for a marker in the subprocess output
PmClass(name, calls_super, co_freevars, parses_output) ==
    [name |-> name, calls_super |-> calls_super, co_freevars |-> co_freevars,
     parses_output |-> parses_output]

BitWarden == PmClass("BitWarden", TRUE, {"__class__"}, TRUE)
OnePassword == PmClass("OnePassword", TRUE, {"__class__"}, FALSE)

\* BitWarden, OnePassword, and two plug-ins whose destroy_session does not
\* call super(): one with no free variable, one that names __class__
PmClasses ==
    {BitWarden, OnePassword,
     PmClass("plugin", FALSE, {}, FALSE),
     PmClass("plugin naming __class__", FALSE, {"__class__"}, FALSE)}

\* the test of __new__ on each method of SUPERCALLS
instantiable(cls) == cls.co_freevars # {}

\* what a subprocess started by run() gives: run() raises, the exit status
\* is not 0, or the exit status is 0 and stdout is the string
RunResult(started, returncode, stdout) ==
    [started |-> started, returncode |-> returncode, stdout |-> stdout]

RunResults(outputs) ==
    {RunResult(FALSE, 0, "")} \cup {RunResult(TRUE, 1, "")} \cup
    {RunResult(TRUE, 0, out) : out \in outputs}

PmExit(how, destroyed) == [how |-> how, destroyed |-> destroyed]

InitPm ==
    /\ pm_pc = "new"
    /\ pm_class \in PmClasses
    /\ pm_user = PyNone
    /\ pm_password = PyNone
    /\ pm_session = PyNone
    /\ destroy_calls = 0
    /\ pm_exit = PmExit("none", FALSE)

IdlePm ==
    /\ pm_pc = "off"
    /\ pm_class = BitWarden
    /\ pm_user = PyNone
    /\ pm_password = PyNone
    /\ pm_session = PyNone
    /\ destroy_calls = 0
    /\ pm_exit = PmExit("none", FALSE)

pm_rest == <<ledger_vars, exclude_vars, csv_vars, details_vars, annotate_vars, run_vars,
             sub_vars, list_vars, multi_vars, device_vars, zone_vars, login_vars, odt_vars>>

\* self.destroy_session() on an object with the given attributes: the
\* attributes are cleared where the method reaches the base class's
DestroySession(user, password, session) ==
    /\ destroy_calls' = destroy_calls + 1
    /\ pm_user' = IF pm_class.calls_super THEN PyNone ELSE user
    /\ pm_password' = IF pm_class.calls_super THEN PyNone ELSE password
    /\ pm_session' = IF pm_class.calls_super THEN PyNone ELSE session

\* an exception leaves __enter__: __exit__ is not called
EnterRaises(how) ==
    /\ pm_pc' = "left"
    /\ pm_exit' = PmExit(how, FALSE)
    /\ UNCHANGED destroy_calls

\* destroy_session() and sys.exit(1)
DestroyAndExit(how, user, password, session) ==
    /\ DestroySession(user, password, session)
    /\ pm_pc' = "left"
    /\ pm_exit' = PmExit(how, TRUE)

\* cls(): __new__ and __init__
PmNew ==
    /\ pm_pc = "new"
    /\ pm_pc' = IF instantiable(pm_class) THEN "enter" ELSE "rejected"
    /\ pm_user' = PyNone
    /\ pm_password' = PyNone
    /\ pm_session' = PyNone
    /\ UNCHANGED <<pm_class, destroy_calls, pm_exit>>
    /\ UNCHANGED pm_rest

\* __enter__: self.session = self.get_session()
PmGetSession ==
    /\ pm_pc = "enter"
    /\ \E proc \in RunResults({"", "sid"}) :
        IF ~proc.started
        THEN EnterRaises("run raised") /\ UNCHANGED <<pm_user, pm_password, pm_session>>
        ELSE IF proc.returncode # 0
        THEN DestroyAndExit("subprocess failed", pm_user, pm_password, pm_session)
        ELSE IF pm_class.parses_output /\ proc.stdout = ""
        THEN DestroyAndExit("subprocess failed", pm_user, pm_password, pm_session)
        ELSE /\ pm_session' = PyStr(proc.stdout)
             /\ pm_pc' = "user"
             /\ UNCHANGED <<pm_user, pm_password, destroy_calls, pm_exit>>
    /\ UNCHANGED pm_class
    /\ UNCHANGED pm_rest

\* __enter__: self.user = self.get_user()
PmGetUser ==
    /\ pm_pc = "user"
    /\ \E proc \in RunResults({"", "alice"}) :
        IF ~proc.started
        THEN EnterRaises("run raised") /\ UNCHANGED <<pm_user, pm_password, pm_session>>
        ELSE /\ pm_user' = PyStr(proc.stdout)
             /\ pm_pc' = "password"
             /\ UNCHANGED <<pm_password, pm_session, destroy_calls, pm_exit>>
    /\ UNCHANGED pm_class
    /\ UNCHANGED pm_rest

\* __enter__: self.password = self.get_password(), and the test of the two
PmGetPassword ==
    /\ pm_pc = "password"
    /\ \E proc \in RunResults({"", "secret"}) :
        IF ~proc.started
        THEN EnterRaises("run raised") /\ UNCHANGED <<pm_user, pm_password, pm_session>>
        ELSE IF ~(truthy(pm_user) /\ truthy(PyStr(proc.stdout)))
        THEN DestroyAndExit("credentials not found", pm_user, PyStr(proc.stdout), pm_session)
        ELSE /\ pm_password' = PyStr(proc.stdout)
             /\ pm_pc' = "body"
             /\ UNCHANGED <<pm_user, pm_session, destroy_calls, pm_exit>>
    /\ UNCHANGED pm_class
    /\ UNCHANGED pm_rest

\* the body of the with-statement ends or raises, and __exit__ runs
PmExitBody ==
    /\ pm_pc = "body"
    /\ \E how \in {"normal end", "exception in the body"} :
        /\ DestroySession(pm_user, pm_password, pm_session)
        /\ pm_pc' = "left"
        /\ pm_exit' = PmExit(how, TRUE)
    /\ UNCHANGED pm_class
    /\ UNCHANGED pm_rest

\* the object is used in another with-statement
PmEnterAgain ==
    /\ pm_pc = "left"
    /\ pm_exit.how \in {"normal end", "exception in the body"}
    /\ destroy_calls < MaxCalls
    /\ pm_pc' = "enter"
    /\ pm_exit' = PmExit("none", FALSE)
    /\ UNCHANGED <<pm_class, pm_user, pm_password, pm_session, destroy_calls>>
    /\ UNCHANGED pm_rest

\* -------------------------------------------------------- offset_date_time
SecondsPerDay == 86400

\* a naive datetime: the ordinal of its date and the second of that day
DateTime(day, second) == [day |-> day, second |-> second]

\* the GMT start times and the zone offsets (minutes east of GMT) tried
GmtTimes == {DateTime(d, s) : d \in {67, 68}, s \in {0, 16200, 41002, 86399}}
ZoneOffsets == {-720, -300, -60, 0, 60, 345, 840}

\* seconds from the start of day 0 to the naive datetime
seconds_of(dt) == dt.day * SecondsPerDay + dt.second

\* the wall-clock time of the zone at the moment of the GMT time
LocalTime(gmt, zone_offset) ==
    LET total == seconds_of(gmt) + zone_offset * 60
    IN  DateTime(total \div SecondsPerDay, total % SecondsPerDay)

\* a timedelta is kept normalised: 0 <= seconds < 86400, the rest in days
timedelta(seconds) ==
    [days |-> seconds \div SecondsPerDay, seconds |-> seconds % SecondsPerDay]

\* FixedOffset(offset, "LCL").utcoffset(), in seconds
FixedOffset(offset) == offset * 60

NoDateTime == [day |-> 0, second |-> 0, utcoffset |-> 0, aware |-> FALSE]

\* local_dt - gmt_dt, offset.seconds // 60, and local_dt.replace(tzinfo=...)
offset_date_time(local_dt, gmt_dt) ==
    LET offset == timedelta(seconds_of(local_dt) - seconds_of(gmt_dt))
        offset_tz == FixedOffset(offset.seconds \div 60)
    IN  [day |-> local_dt.day, second |-> local_dt.second, utcoffset |-> offset_tz, aware |-> TRUE]

\* datetime.timestamp() of an aware datetime, counted from the start of day 0
timestamp(dt) == dt.day * SecondsPerDay + dt.second - dt.utcoffset

InitOdt ==
    /\ time_gmt \in GmtTimes
    /\ time_local \in {LocalTime(time_gmt, z) : z \in ZoneOffsets}
    /\ odt_result = NoDateTime

IdleOdt ==
    /\ time_gmt = DateTime(0, 0)
    /\ time_local = DateTime(0, 0)
    /\ odt_result = NoDateTime

OffsetDateTime ==
    /\ odt_result = NoDateTime
    /\ odt_result' = offset_date_time(time_local, time_gmt)
    /\ UNCHANGED <<time_local, time_gmt>>
    /\ UNCHANGED <<ledger_vars, exclude_vars, csv_vars, details_vars, annotate_vars, run_vars,
                   sub_vars, list_vars, multi_vars, device_vars, zone_vars, login_vars, pm_vars>>

IdleLate == IdleLogin /\ IdlePm /\ IdleOdt

IdleMore == IdleSub /\ IdleList /\ IdleMulti /\ IdleDevice /\ IdleZones /\ IdleLate

IdleAux == IdleDetails /\ IdleAnnotate /\ IdleRun /\ IdleMore

\* ------------------------------------------------------------ specifications
\* the download ledger under any sequence of update_download_stats calls
Init == InitLedger /\ IdleExclude /\ IdleCsv /\ IdleAux
Next == UpdateDownloadStats
Spec == Init /\ [][Next]_vars

\* read_exclude on every kind of exclusion path
InitExcludeRun == InitExclude /\ IdleLedger /\ IdleCsv /\ IdleAux
NextExclude == ReadExclude
SpecExclude == InitExcludeRun /\ [][NextExclude]_vars

\* a CsvFilter on every template file, under any sequence of calls
InitCsvFilter == InitCsv /\ IdleLedger /\ IdleExclude /\ IdleAux
NextCsv == WriteHeader \/ SetColumn \/ WriteRow
SpecCsv == InitCsvFilter /\ [][NextCsv]_vars

\* fetch_details for one activity, every sequence of responses
InitFetchDetails == InitDetails /\ IdleAnnotate /\ IdleRun /\ IdleMore /\ IdleLedger /\ IdleExclude /\ IdleCsv
NextDetails == FetchDetailsTry
SpecDetails == InitFetchDetails /\ [][NextDetails]_vars

\* annotate_activity_list on every small activity list
InitAnnotateList == InitAnnotate /\ IdleDetails /\ IdleRun /\ IdleMore /\ IdleLedger /\ IdleExclude /\ IdleCsv
NextAnnotate == AnnotateActivityList
SpecAnnotate == InitAnnotateList /\ [][NextAnnotate]_vars

\* runs of main on one export directory, empty at first
InitMain == InitRun /\ InitRunCsv /\ IdleLedger /\ IdleExclude /\ IdleDetails /\ IdleAnnotate /\ IdleMore
NextRun ==
    \/ StartRun \/ OpenCsv \/ LoopDownload \/ LoopSkip \/ LoopEnd
    \/ FetchDetails \/ ExportCheck \/ Download \/ WriteToFile \/ UpdateLedger \/ Unzip \/ CsvWriteRecord
    \/ MainGuard \/ Interrupt
SpecRun == InitMain /\ [][NextRun]_vars

\* the optional lookups of one downloaded activity, for every small template
InitLookups == InitSub /\ IdleLate /\ IdleList /\ IdleMulti /\ IdleDevice /\ IdleZones /\ IdleLedger /\ IdleExclude /\ IdleDetails /\ IdleAnnotate /\ IdleRun
NextLookups == LookupSamples \/ LookupGear \/ LookupZones
SpecLookups == InitLookups /\ [][NextLookups]_vars

\* fetch_activity_list for every total up to MaxTotal
InitFetchList ==
    InitList /\ IdleLate /\ IdleSub /\ IdleMulti /\ IdleDevice /\ IdleZones /\ IdleLedger /\ IdleExclude /\ IdleCsv /\ IdleDetails /\ IdleAnnotate /\ IdleRun
NextList == FetchChunk \/ ReturnList
SpecList == InitFetchList /\ [][NextList]_vars

\* fetch_multisports on every small chunk
InitMultisports ==
    InitMulti /\ IdleLate /\ IdleSub /\ IdleList /\ IdleDevice /\ IdleZones /\ IdleLedger /\ IdleExclude /\ IdleCsv /\ IdleDetails /\ IdleAnnotate /\ IdleRun
NextMulti == MultisportsStep \/ MultisportsReturn
SpecMulti == InitMultisports /\ [][NextMulti]_vars

\* calls of extract_device that share one device_dict
InitExtractDevice ==
    InitDevice /\ IdleLate /\ IdleSub /\ IdleList /\ IdleMulti /\ IdleZones /\ IdleLedger /\ IdleExclude /\ IdleCsv /\ IdleDetails
        /\ IdleAnnotate /\ IdleRun
NextDevice == ExtractDevice
SpecDevice == InitExtractDevice /\ [][NextDevice]_vars

\* the heart-rate zones of the activities of one run, one after the other
InitHrZones ==
    InitZones /\ IdleLate /\ IdleSub /\ IdleList /\ IdleMulti /\ IdleDevice /\ IdleLedger /\ IdleExclude /\ IdleCsv
        /\ IdleDetails /\ IdleAnnotate /\ IdleRun
NextZones == LoadZones \/ ZonesNotFetched
SpecZones == InitHrZones /\ [][NextZones]_vars

\* login_to_garmin_connect, called once
InitLoginCall ==
    InitLogin /\ IdlePm /\ IdleOdt /\ IdleSub /\ IdleList /\ IdleMulti /\ IdleDevice /\ IdleZones /\ IdleLedger
        /\ IdleExclude /\ IdleCsv /\ IdleDetails /\ IdleAnnotate /\ IdleRun
NextLogin == LoginStart \/ GarthResume \/ GarthUsername \/ GarthLogin \/ GarthSave
SpecLogin == InitLoginCall /\ [][NextLogin]_vars

\* a PasswordManager object created and used in with-statements
InitPasswordManager ==
    InitPm /\ IdleLogin /\ IdleOdt /\ IdleSub /\ IdleList /\ IdleMulti /\ IdleDevice /\ IdleZones /\ IdleLedger
        /\ IdleExclude /\ IdleCsv /\ IdleDetails /\ IdleAnnotate /\ IdleRun
NextPm == PmNew \/ PmGetSession \/ PmGetUser \/ PmGetPassword \/ PmExitBody \/ PmEnterAgain
SpecPm == InitPasswordManager /\ [][NextPm]_vars

\* offset_date_time applied to the start times of an activity
InitOffsetDateTime ==
    InitOdt /\ IdleLogin /\ IdlePm /\ IdleSub /\ IdleList /\ IdleMulti /\ IdleDevice /\ IdleZones /\ IdleLedger
        /\ IdleExclude /\ IdleCsv /\ IdleDetails /\ IdleAnnotate /\ IdleRun
NextOdt == OffsetDateTime
SpecOdt == InitOffsetDateTime /\ [][NextOdt]_vars

\* ------------------------------------------------------ claims: the ledger
\* the ledger the first run starts from: no file, or a file without any ID
EmptyLedgers == {Absent, BadText(""), JString(""), JObject({}, NoIds), JObject({KEY_IDS}, NoIds)}

CalledWithKnownId == ncalls > 0 /\ HasIds(ledger_before) /\ last_id \in Range(ledger_before.ids)

\* C1: starting from an absent or empty ledger, after any sequence of
\* update_download_stats calls (IDs may repeat) every ID passed is in the
\* ledger's ids list exactly once, and a call whose ID is already in ids
\* leaves the file content as it was.
C1_LedgerIdempotent ==
    ledger_start \in EmptyLedgers =>
        /\ ncalls > 0 => HasIds(ledger) /\ \A id \in passed : Count(id, ledger.ids) = 1
        /\ CalledWithKnownId => ledger = ledger_before /\ raised = "none"

\* an ID was passed a second time, after another ID had been added
C1_Witness ==
    /\ ledger_start \in EmptyLedgers
    /\ CalledWithKnownId
    /\ Cardinality(passed) >= 2

\* C2: after every update_download_stats call the ids array stored in the
\* ledger is in ascending lexicographic (str) order, whatever the order of
\* the calls.
C2_LedgerSorted == ncalls > 0 /\ HasIds(ledger) => IsSorted(ledger.ids)

\* the latest call added an ID that sorts before one added earlier
C2_Witness ==
    /\ ncalls >= 2
    /\ HasIds(ledger_before)
    /\ HasIds(ledger)
    /\ Len(ledger.ids) = Len(ledger_before.ids) + 1
    /\ \E id \in Range(ledger_before.ids) : StrLess(last_id, id) /\ id \in passed

\* C3: when the ledger file's content is not valid JSON, the call does not
\* raise and leaves a ledger object whose ids list holds exactly the new ID.
C3_CorruptionTolerated ==
    ncalls > 0 /\ ledger_before.kind = "text" =>
        /\ raised = "none"
        /\ ledger = JObject({KEY_IDS}, <<last_id>>)

\* a call found the literal text HUGO in the ledger file
C3_Witness == ncalls > 0 /\ ledger_before = BadText("HUGO") /\ HasIds(ledger)

\* C4: when the ledger file holds valid JSON whose top-level value is not
\* an object (a number, a non-empty string, a list, true, false or null), the
\* call completes and leaves a ledger object whose ids list has the new ID.
C4_NonObjectReplaced ==
    (/\ ncalls > 0
     /\ IsJson(ledger_before)
     /\ ~IsObject(ledger_before)
     /\ ledger_before # JString("")) =>
        /\ raised = "none"
        /\ HasIds(ledger)
        /\ last_id \in Range(ledger.ids)

\* C5: an ID that was once in the ledger's ids list is in it after every
\* later call.
C5_LedgerMonotonic == recorded \subseteq IdSet(ledger)

\* an ID recorded by an earlier call survived a call that added another one
C5_Witness ==
    /\ ncalls >= 2
    /\ ledger # ledger_before
    /\ HasIds(ledger_before)
    /\ ledger_before.ids # NoIds
    /\ Range(ledger_before.ids) \subseteq Range(ledger.ids)

\* ------------------------------------------------ claims: the exclusion list
\* C6: read_exclude returns None, and does not raise, when the path does not
\* exist, is not a regular file, or holds text that is not JSON.
C6_ExcludeAbsence ==
    exclude_result.status # "unread" /\ exclude_start.kind \in {"absent", "dir", "text"} =>
        exclude_result = ReturnedNone

\* read_exclude was called on a directory
C6_Witness == exclude_result.status # "unread" /\ exclude_start = Directory

\* C7 as stated: for every regular file whose content parses as JSON,
\* read_exclude returns the document's ids array verbatim and leaves the
\* file alone.
C7_EveryJsonReturnsIds ==
    exclude_result.status # "unread" /\ IsJson(exclude_start) =>
        /\ exclude_result = ReturnedIds(exclude_start.ids)
        /\ exclude_file = exclude_start

\* C7 amended: for every regular file whose content parses as a JSON object
\* that has an "ids" key, read_exclude returns that array verbatim (same
\* elements, count, order and repeats) and leaves the file alone.
C7_ObjectWithIdsReturned ==
    exclude_result.status # "unread" /\ HasIds(exclude_start) =>
        /\ exclude_result = ReturnedIds(exclude_start.ids)
        /\ exclude_file = exclude_start

\* read_exclude returned an array that is not in sorted order
C7_Witness ==
    /\ exclude_result.status = "ids"
    /\ HasIds(exclude_start)
    /\ ~IsSorted(exclude_result.ids)

\* -------------------------------------------------- claims: the CSV projector
ConfiguredHeaders == {csv_headers[k] : k \in Range(csv_columns)}

NoOpCall ==
    /\ last_op.op = "set_column"
    /\ (last_op.value \in FalsyValues \/ last_op.name \notin Range(csv_columns))

\* C8: after any sequence of set_column and write_row calls every key of
\* the row buffer is the display header of a configured column, and a value
\* passed for a column that is not in the template is not stored.
C8_BufferWithinTemplate ==
    /\ DOMAIN current_row \subseteq ConfiguredHeaders
    /\ (last_op.op = "set_column" /\ last_op.name \notin Range(csv_columns)) =>
            current_row = row_before

\* a truthy value was passed for a column the template does not list, while
\* the buffer held a value of a listed column
C8_Witness ==
    /\ last_op.op = "set_column"
    /\ last_op.value \notin FalsyValues
    /\ last_op.name \notin Range(csv_columns)
    /\ current_row # EmptyDict

\* C9: set_column with a falsy value or with a name that is not configured
\* leaves the row buffer as it was, values stored earlier included, so the
\* row written next is the one that would have been written before the call.
C9_SetColumnNoOp ==
    NoOpCall =>
        /\ current_row = row_before
        /\ RowRecord(csv_field_names, current_row) = RowRecord(csv_field_names, row_before)

\* a falsy value was passed for a configured column that already had a value
C9_Witness ==
    /\ last_op.op = "set_column"
    /\ last_op.value \in FalsyValues
    /\ last_op.name \in Range(csv_columns)
    /\ csv_headers[last_op.name] \in DOMAIN row_before

\* the values passed, since the previous write_row, for the columns shown
\* under the i-th field name
PassedFor(i) ==
    {since_write[k] : k \in {c \in DOMAIN since_write \cap Range(csv_columns) :
                                csv_headers[c] = csv_field_names[i]}}

RowRecords == {i \in 1..Len(csv_file) : csv_file[i].kind = "row"}

\* C10: write_row emits one record with one field per template column, in
\* the template's order, holding the value passed to set_column for that
\* column since the previous write_row and nothing where none was passed,
\* and leaves the buffer empty.
C10_RowIsWhatWasSet ==
    /\ Cardinality(RowRecords) = nwrites
    /\ (last_op.op = "write_row" /\ csv_raised = "none") =>
        /\ current_row = EmptyDict
        /\ csv_file # <<>>
        /\ LET rec == csv_file[Len(csv_file)]
           IN  /\ rec.kind = "row"
               /\ Len(rec.fields) = Len(csv_columns)
               /\ \A i \in 1..Len(rec.fields) :
                    IF PassedFor(i) = {} THEN rec.fields[i] = Blank
                    ELSE rec.fields[i] \in PassedFor(i)

\* two rows were written: the first carries a value, the second, for which
\* nothing was set, carries none
C10_Witness ==
    /\ last_op.op = "write_row"
    /\ nwrites = 2
    /\ Len(csv_file) >= 2
    /\ \E i \in 1..Len(csv_field_names) :
        /\ csv_file[Len(csv_file) - 1].kind = "row"
        /\ csv_file[Len(csv_file) - 1].fields[i] # Blank
        /\ csv_file[Len(csv_file)].fields[i] = Blank

RECURSIVE DistinctKeys(_)
\* the keys of a key list in the order of their first occurrence
DistinctKeys(keys) ==
    IF keys = <<>> THEN <<>>
    ELSE LET front == DistinctKeys(SubSeq(keys, 1, Len(keys) - 1))
         IN  IF keys[Len(keys)] \in Range(front) THEN front ELSE Append(front, keys[Len(keys)])

\* C11: for every template file, one that declares a key on more than one
\* line included, the ordered key list and the key-to-header mapping have the
\* same length and are co-indexed: the i-th field name is the header of the
\* i-th distinct key.
C11_TemplateCoIndexed ==
    /\ Len(csv_columns) = Cardinality(DOMAIN csv_headers)
    /\ Len(csv_field_names) = Len(DistinctKeys(csv_columns))
    /\ \A i \in 1..Len(csv_field_names) :
            i <= Len(DistinctKeys(csv_columns)) =>
                csv_field_names[i] = csv_headers[DistinctKeys(csv_columns)[i]]

\* a response with a non-empty summary
Complete(response) == response = "complete"

\* C17: fetch_details makes at most MAX_TRIES requests; when it returns, the
\* response returned is the first one with a non-empty summary; when it ends
\* without such a response (the summary missing or empty every time) it has
\* made MAX_TRIES requests and raised GarminException.
C17_FetchDetailsRetries ==
    /\ Len(fd_responses) <= MAX_TRIES
    /\ fd_result = "returned" =>
            /\ fd_responses # <<>>
            /\ Complete(fd_responses[Len(fd_responses)])
            /\ \A i \in 1..(Len(fd_responses) - 1) : ~Complete(fd_responses[i])
    /\ (fd_result \notin {"idle", "running", "returned"}) =>
            /\ fd_result = "GarminException"
            /\ Len(fd_responses) = MAX_TRIES

\* the action the claim's precedence gives the activity at a zero-based position
ClaimedAction(position) ==
    LET activity == an_activities[position + 1]
    IN  IF position < an_start - 1 THEN "s"
        ELSE IF \E i \in 1..Len(an_exclude) : an_exclude[i] = str_of_int(activity.activityId) THEN "e"
        ELSE IF /\ an_filter.given
                /\ \A i \in 1..Len(an_filter.types) :
                        an_filter.types[i] \notin {str_of_type_id(activity.typeId), activity.typeKey}
             THEN "f"
        ELSE "d"

\* C20: the list annotate_activity_list returns has one entry per activity, in
\* the order of the input; entry number p (from 0) has index p, carries the
\* p-th activity, and its action is 's' before the start position, else 'e' for
\* an excluded ID, else 'f' for a type the filter does not name, else 'd'.
C20_AnnotatePrecedence ==
    an_result # NotAnnotated =>
        /\ Len(an_result) = Len(an_activities)
        /\ \A p \in 0..(Len(an_activities) - 1) :
                /\ an_result[p + 1].index = p
                /\ an_result[p + 1].activity = an_activities[p + 1]
                /\ an_result[p + 1].action = ClaimedAction(p)

\* a list was annotated in which a skipped activity is also on the exclusion
\* list, and an excluded one is also of a type the filter does not name
C20_Witness ==
    /\ an_result # NotAnnotated
    /\ Len(an_result) = 2
    /\ an_result[1].action = "s"
    /\ str_of_int(an_activities[1].activityId) \in Range(an_exclude)
    /\ an_result[2].action = "e"
    /\ an_filter.given
    /\ an_activities[2].typeKey \notin Range(an_filter.types)
    /\ str_of_type_id(an_activities[2].typeId) \notin Range(an_filter.types)

\* the positions of this run's events of a kind
EventsOf(kind) == {k \in 1..Len(events) : events[k].kind = kind}

\* this run has an event of the kind for the activity
Did(kind, id) == \E k \in EventsOf(kind) : events[k].id = id

RowIds ==
    {str_of_int(a.activityId) : a \in {b \in Range(RunActivities) :
        \E i \in 1..Len(csv_file) :
            csv_file[i].kind = "row" /\ csv_file[i].fields[1] = PyStr(id_text(b.activityId))}}

\* C13: within a run an activity's CSV row comes after its ledger update,
\* which comes after the write of its data file; in every state an ID is in the
\* ledger only if its data file was written, and an activity has a CSV row
\* only if its ID is in the ledger.
C13_FileLedgerRow ==
    /\ \A k \in EventsOf("csv") :
            \E j \in EventsOf("ledger") : j < k /\ events[j].id = events[k].id
    /\ \A j \in EventsOf("ledger") :
            \E i \in EventsOf("file") : i < j /\ events[i].id = events[j].id
    /\ IdSet(ledger) \subseteq written
    /\ RowIds \subseteq IdSet(ledger)

\* a run with --unzip wrote the zip, recorded the ID, removed the zip and wrote the row
C13_Witness ==
    /\ args.format = "original"
    /\ args.unzip
    /\ \E k \in EventsOf("csv") :
            /\ events[k].id \in IdSet(ledger)
            /\ FileName(events[k].id, "zip") \notin DOMAIN data_files
            /\ FileName(events[k].id, "fit") \in DOMAIN data_files

\* the download requests of this run answered with one of the two tolerated errors
Tolerated(k) ==
    /\ events[k].kind = "request"
    /\ \/ events[k].status = 500 /\ args.format = "tcx"
       \/ events[k].status = 404 /\ args.format = "original"

\* C14: after a download answered HTTP 500 for tcx or HTTP 404 for original
\* the run does not fail at that activity: once the write is done the empty
\* data file is in the directory, and after the ledger step the ID is in the
\* ledger.
C14_PlaceholderRecorded ==
    \A k \in 1..Len(events) :
        Tolerated(k) =>
            \/ pc = "write" /\ CurrentId = events[k].id
            \/ /\ run_exception = "none" \/ CurrentId # events[k].id
               /\ data_filename(args.format, events[k].id) \in DOMAIN data_files
               /\ data_files[data_filename(args.format, events[k].id)] = "empty"
               /\ (pc = "ledger" /\ CurrentId = events[k].id) \/ events[k].id \in IdSet(ledger)

\* the download requests answered with any other HTTP error
Fatal(k) ==
    /\ events[k].kind = "request"
    /\ events[k].status \notin {200, 204}
    /\ ~(events[k].status = 500 /\ args.format = "tcx")
    /\ ~(events[k].status = 404 /\ args.format = "original")

\* C15: a download answered with an HTTP error other than 500 for tcx and 404
\* for original is the last thing the run does: GarminException leaves main,
\* the activity gets no data file, no ledger update and no CSV row, and no
\* later activity is processed.
C15_OtherErrorAborts ==
    \A k \in 1..Len(events) :
        Fatal(k) =>
            /\ k = Len(events)
            /\ pc \in {"raised", "exited"}
            /\ run_exception = "GarminException"
            /\ CurrentId = events[k].id
            /\ ~Did("file", events[k].id) /\ ~Did("ledger", events[k].id) /\ ~Did("csv", events[k].id)
            /\ data_filename(args.format, events[k].id) \notin DOMAIN data_files

\* a run over two activities ended at the first one, whose download answered HTTP 403
C15_Witness ==
    /\ pc = "exited"
    /\ Len(action_list) = 2
    /\ item_ix = 1
    /\ \E k \in 1..Len(events) : Fatal(k) /\ events[k].status = 403

\* C16: a run that an exception aborted does not end with exit status 0.
C16_FatalNonZero ==
    (pc = "exited" /\ run_exception # "none") => exit_status # 0

\* C18: for an activity whose data file the existence check found, this run
\* goes straight back to the loop: no download request, no file write, no
\* ledger update and no CSV row for it.
C18_ExistingFileSkipped ==
    /\ \A id \in existed_at_check :
            ~Did("request", id) /\ ~Did("file", id) /\ ~Did("ledger", id) /\ ~Did("csv", id)
    /\ pc \in {"download", "write", "ledger", "unzip", "csv"} => CurrentId \notin existed_at_check

\* a run ended that found the file an earlier run with --unzip had extracted
C18_Witness ==
    /\ pc = "exited"
    /\ \E id \in existed_at_check :
            /\ FileName(id, "fit") \in DOMAIN data_files
            /\ id \in IdSet(ledger)

\* the run ended normally, every activity of the list had action 'd' and was
\* downloaded with HTTP 200 (or rendered from its details, for json)
AllDownloaded ==
    /\ pc = "exited"
    /\ run_exception = "none"
    /\ EventsOf("open") # {}
    /\ EventsOf("done") # {}
    /\ \A i \in 1..Len(action_list) :
            /\ action_list[i].action = "d"
            /\ \/ args.format = "json"
               \/ \E k \in EventsOf("request") :
                    events[k].id = str_of_int(action_list[i].activity.activityId) /\ events[k].status = 200

\* position in the activity list of the activity with the ID
PositionOf(id) == CHOOSE i \in 1..Len(action_list) : str_of_int(action_list[i].activity.activityId) = id

\* C19: a run that started on an empty directory and downloaded all its n
\* activities ends with exactly their n IDs in the ledger, the header and
\* their n rows in list order in activities.csv, and one data file per ID;
\* in every run the effects of an activity all precede those of the next.
C19_EndToEnd ==
    /\ (fresh /\ AllDownloaded) =>
            /\ Len(ledger.ids) = Len(action_list)
            /\ IdSet(ledger) = {str_of_int(action_list[i].activity.activityId) : i \in 1..Len(action_list)}
            /\ Len(csv_file) = Len(action_list) + 1
            /\ csv_file[1].kind = "header"
            /\ \A i \in 1..Len(action_list) :
                    /\ csv_file[i + 1].kind = "row"
                    /\ csv_file[i + 1].fields[1] = PyStr(id_text(action_list[i].activity.activityId))
                    /\ Cardinality({f \in DOMAIN data_files :
                            f.id = str_of_int(action_list[i].activity.activityId)}) = 1
            /\ Cardinality(DOMAIN data_files) = Len(action_list)
    /\ \A j \in 1..Len(events), k \in 1..Len(events) :
            (j < k /\ events[j].id # NoId /\ events[k].id # NoId) =>
                PositionOf(events[j].id) <= PositionOf(events[k].id)

\* a first run over two activities downloaded both, and the ledger's sorted
\* order differs from the list order
C19_Witness ==
    /\ fresh
    /\ AllDownloaded
    /\ Len(action_list) = 2
    /\ Len(csv_file) = 3
    /\ ledger.ids[1] = str_of_int(action_list[2].activity.activityId)

\* the activities of this run's list that are before the start position, on
\* the exclusion list, or of a type the filter does not name
PassedOver ==
    {i \in 1..Len(action_list) :
        \/ i - 1 < args.start_activity_no - 1
        \/ str_of_int(action_list[i].activity.activityId) \in Range(args.exclude)
        \/ /\ args.type_filter.given
           /\ action_list[i].activity.typeKey \notin Range(args.type_filter.types)
           /\ str_of_type_id(action_list[i].activity.typeId) \notin Range(args.type_filter.types)}

\* C21: an activity that is skipped by position, excluded by ID or filtered
\* out by type causes no request and no write in the run, and has no data
\* file, no ledger entry and no CSV row.
C21_PassedOverUntouched ==
    \A i \in PassedOver :
        LET id == str_of_int(action_list[i].activity.activityId)
        IN  /\ ~Did("details", id) /\ ~Did("request", id)
            /\ ~Did("file", id) /\ ~Did("ledger", id) /\ ~Did("csv", id)
            /\ \A f \in DOMAIN data_files : f.id # id
            /\ id \notin IdSet(ledger)
            /\ id \notin RowIds

\* a run ended that downloaded the first activity and passed over the second,
\* which is on the exclusion list
C21_Witness ==
    /\ pc = "exited"
    /\ Len(action_list) = 2
    /\ 2 \in PassedOver
    /\ str_of_int(action_list[2].activity.activityId) \in Range(args.exclude)
    /\ Did("csv", str_of_int(action_list[1].activity.activityId))

\* C22: when the optional lookups of an activity are done, the samples were
\* requested exactly if 'sampleCount' is configured, the gear exactly if
\* 'gear' is configured, and the heart-rate zones exactly if at least one
\* heart-rate-zone column is configured; the template and the row buffer are
\* as before.
C22_LookupIffConfigured ==
    /\ sub_pc = "done" =>
            /\ "samples" \in sub_requests <=> "sampleCount" \in Range(csv_columns)
            /\ "gear" \in sub_requests <=> "gear" \in Range(csv_columns)
            /\ "zones" \in sub_requests <=> Range(csv_columns) \cap HrZoneColumns # {}
    /\ sub_pc # "off" =>
            /\ csv_columns = load_properties_keys(template)
            /\ current_row = EmptyDict

\* ceil(n / LIMIT_MAXIMUM)
ChunksFor(n) == (n + LIMIT_MAXIMUM - 1) \div LIMIT_MAXIMUM

\* C23: fetch_activity_list never makes more than ceil(N / LIMIT_MAXIMUM)
\* chunk requests and goes on until it has made that many, then returns;
\* request number k (from 0) has start LIMIT_MAXIMUM * k and limit
\* min(LIMIT_MAXIMUM, N - LIMIT_MAXIMUM * k), so the ranges are contiguous,
\* of size 1..LIMIT_MAXIMUM, and at the return cover exactly 0..N-1.
C23_Pagination ==
    /\ Len(chunk_requests) <= ChunksFor(total_to_download)
    /\ list_returned => Len(chunk_requests) = ChunksFor(total_to_download)
    /\ (~list_returned /\ Len(chunk_requests) < ChunksFor(total_to_download)) => ENABLED FetchChunk
    /\ (~list_returned /\ Len(chunk_requests) = ChunksFor(total_to_download)) => ENABLED ReturnList
    /\ \A k \in 1..Len(chunk_requests) :
            /\ chunk_requests[k].start = LIMIT_MAXIMUM * (k - 1)
            /\ chunk_requests[k].limit =
                    IF total_to_download - LIMIT_MAXIMUM * (k - 1) < LIMIT_MAXIMUM
                    THEN total_to_download - LIMIT_MAXIMUM * (k - 1) ELSE LIMIT_MAXIMUM
            /\ chunk_requests[k].limit \in 1..LIMIT_MAXIMUM
            /\ k > 1 => chunk_requests[k].start = chunk_requests[k - 1].start + chunk_requests[k - 1].limit
    /\ (list_returned /\ chunk_requests # <<>>) =>
            /\ chunk_requests[1].start = 0
            /\ chunk_requests[Len(chunk_requests)].start + chunk_requests[Len(chunk_requests)].limit
                    = total_to_download

\* a list of more than two full chunks was fetched: three requests, the last one short
C23_Witness ==
    /\ list_returned
    /\ Len(chunk_requests) = 3
    /\ chunk_requests[3].limit < LIMIT_MAXIMUM

RECURSIVE WithChildren(_)
\* the list in which every multi_sport summary is followed by its children, in
\* the order of its childIds
WithChildren(list) ==
    IF list = <<>> THEN <<>>
    ELSE LET first == list[1]
             children == IF first.multi_sport
                         THEN [i \in 1..Len(child_ids_of[first.activityId].ids) |->
                                    MultiSummary(child_ids_of[first.activityId].ids[i], FALSE)]
                         ELSE <<>>
         IN  <<first>> \o children \o WithChildren(SubSeq(list, 2, Len(list)))

\* C24: when fetch_multisports has returned, the list is the list it was given
\* with, right after every multi_sport summary, one summary per child in the
\* order of its childIds; a list without multi_sport summaries is as before.
C24_ChildrenInserted ==
    multisports_result = "returned" =>
        /\ activity_summaries = WithChildren(summaries_before)
        /\ (\A i \in 1..Len(summaries_before) : ~summaries_before[i].multi_sport) =>
                activity_summaries = summaries_before

\* the call returned for a list with a multi_sport activity that has two
\* children and is not the last of the list
C24_Witness ==
    /\ multisports_result = "returned"
    /\ Len(summaries_before) = 2
    /\ summaries_before[1].multi_sport
    /\ Len(child_ids_of[summaries_before[1].activityId].ids) = 2
    /\ Len(activity_summaries) >= 4

\* C25: over the calls of extract_device that share a device_dict, no
\* deviceApplicationInstallationId is requested more than once, whatever the
\* first request gave, and a call whose deviceId is present but null or '0'
\* makes no request.
C25_OneRequestPerDevice ==
    /\ \A id \in {1, 2} : Count(id, device_requests) <= 1
    /\ device_call.details.device_id \in {"null", "0"} => ~device_call.requested

\* a device whose request failed or gave incomplete data was asked for again,
\* and the call was answered from the cache
C25_Witness ==
    /\ device_calls >= 2
    /\ device_call.details.metadata
    /\ device_call.details.device_app_inst_id = 1
    /\ device_call.details.device_id = "id"
    /\ ~device_call.requested
    /\ device_call.result = "None"
    /\ device_requests = <<1>>

\* C26: the five zone entries used for an activity are set exactly for the
\* zone numbers in that activity's own response, and come from that
\* response; with an empty response or zones not fetched all five are absent.
C26_ZonesOfThisActivity ==
    /\ DOMAIN hr_zones = ZoneNumbers
    /\ \A i \in ZoneNumbers :
            /\ hr_zones[i].set <=> i \in zones_raw
            /\ hr_zones[i].set => hr_zones[i].activity = zone_calls

\* the number of data rows of activities.csv for the activity
RowsOf(activity) ==
    Cardinality({i \in 1..Len(csv_file) :
        csv_file[i].kind = "row" /\ csv_file[i].fields[1] = PyStr(id_text(activity.activityId))})

\* C27: when a run has worked through its whole list, every download-action
\* activity of the list at which an earlier run was stopped has a data file,
\* its ID in the ledger, and exactly one row in activities.csv.
C27_ResumedComplete ==
    (pc = "exited" /\ EventsOf("done") # {}) =>
        \A i \in 1..Len(action_list) :
            LET id == str_of_int(action_list[i].activity.activityId)
            IN  (id \in interrupted /\ action_list[i].action = "d") =>
                    /\ \E f \in DOMAIN data_files : f.id = id
                    /\ id \in IdSet(ledger)
                    /\ RowsOf(action_list[i].activity) = 1

\* ------------------------------------------------------- claims: the login
\* the outcome of the garth call of the name, or "not called"
GarthOutcome(name) ==
    IF \E i \in DOMAIN garth_calls : garth_calls[i].call = name
    THEN garth_calls[CHOOSE i \in DOMAIN garth_calls : garth_calls[i].call = name].outcome
    ELSE "not called"

LoginEnded == login_pc \in {"returned", "raised"}

\* C28 as stated: when login_to_garmin_connect has ended, garth.login was
\* called if and only if no session directory was given or garth.resume failed
\* or the look at garth.client.username failed; with a session directory a
\* successful login was followed by garth.save; and a failing garth.login or
\* garth.save made the function raise GarminException.
C28_LoginIffResumeFails ==
    LoginEnded =>
        /\ GarthOutcome("login") # "not called" <=>
               \/ garth_session_directory = PyNone
               \/ GarthOutcome("resume") \notin {"ok", "not called"}
               \/ GarthOutcome("username") \notin {"ok", "not called"}
        /\ (garth_session_directory # PyNone /\ GarthOutcome("login") = "ok") =>
               GarthOutcome("save") # "not called"
        /\ (GarthOutcome("login") \notin {"ok", "not called"} \/ GarthOutcome("save") \notin {"ok", "not called"}) =>
               login_raised = "GarminException"

\* C28, amended: garth.login is called if and only if no session directory is
\* given, or garth.resume raises GarthException or FileNotFoundError, or
\* garth.client.username raises GarthException or AssertionError, and neither
\* raises an exception of another class; garth.save is called exactly after a
\* successful login with a session directory; the function raises
\* GarminException exactly when one of the calls raises an exception that is
\* not caught, where a GarthException of garth.save is caught and only
\* logged; otherwise it returns normally.
C28_LoginIffCaughtFailure ==
    LoginEnded =>
        LET resume == GarthOutcome("resume")
            username == GarthOutcome("username")
            login == GarthOutcome("login")
            save == GarthOutcome("save")
            uncaught == \/ resume \in {"AssertionError", "Exception"}
                        \/ username \in {"FileNotFoundError", "Exception"}
        IN  /\ login # "not called" <=>
                   /\ ~uncaught
                   /\ \/ garth_session_directory = PyNone
                      \/ resume \in {"GarthException", "FileNotFoundError"}
                      \/ username \in {"GarthException", "AssertionError"}
            /\ save # "not called" <=> (garth_session_directory # PyNone /\ login = "ok")
            /\ login_raised = "GarminException" <=>
                   \/ uncaught
                   \/ login \notin {"ok", "not called"}
                   \/ save \notin {"ok", "GarthException", "not called"}
            /\ login_pc = "returned" <=> login_raised = "none"

\* a stored session that could not be resumed, a login, and a save that
\* failed with GarthException: the function returned normally
C28_Witness ==
    /\ login_pc = "returned"
    /\ GarthOutcome("resume") = "GarthException"
    /\ GarthOutcome("login") = "ok"
    /\ GarthOutcome("save") = "GarthException"

\* --------------------------------------------- claims: the password manager
\* C29: when a with-statement on a PasswordManager object has been left (by
\* the end of its body, an exception in its body, or an exit or exception in
\* __enter__), destroy_session was called on the way and user, password and
\* session are None; and an object exists only of a class whose
\* destroy_session calls super().
C29_DestroyedOnEveryExit ==
    /\ pm_pc = "left" =>
           /\ pm_exit.destroyed
           /\ pm_user = PyNone
           /\ pm_password = PyNone
           /\ pm_session = PyNone
    /\ ~pm_class.calls_super => pm_pc \in {"new", "rejected"}

\* ------------------------------------------------ claims: offset_date_time
\* C30: the result of offset_date_time has the wall-clock time of time_local,
\* a UTC offset of time_local minus time_gmt, and is the same instant as
\* time_gmt.
C30_SameInstantAsGmt ==
    odt_result # NoDateTime =>
        /\ odt_result.day = time_local.day
        /\ odt_result.second = time_local.second
        /\ odt_result.utcoffset = seconds_of(time_local) - seconds_of(time_gmt)
        /\ timestamp(odt_result) = seconds_of(time_gmt)

====
